---- MODULE Spec2Model ----
(***************************************************************************)
(* A state-machine model of the elspeth SDA core: the cycle runner         *)
(* (SDARunner.run with its row processor, checkpoint manager, early-stop   *)
(* coordinator and result aggregator), the LLM executor's retry loop and   *)
(* the artifact pipeline.                                                  *)
(***************************************************************************)
EXTENDS Integers, Sequences, FiniteSets, TLC

(***************************************************************************)
(* Bounds of the model.                                                    *)
(***************************************************************************)
\* longest input batch (rows of the data frame)
MaxRows == 2
\* how many times SDARunner.run is called on the same checkpoint file
MaxRuns == 2
\* largest thread pool (concurrency.max_workers) the model configures
MaxWorkers == 2
\* threads that call EarlyStopCoordinator.check_record concurrently
MaxCallers == 2
\* check_record calls made on one coordinator
MaxCalls == 4
\* largest retry_config max_attempts
MaxAttempts == 3
\* most middlewares of one LLMExecutor
MaxMiddlewares == 2
\* most sinks of one ArtifactPipeline
MaxBindings == 3
\* rows of a cycle whose LLM calls are followed through the executor
MaxCycleRows == 2
\* criteria of such a cycle
MaxCriteria == 2
\* max_attempts of the executor of such a cycle
MaxCycleAttempts == 2
\* most cycles of one suite
MaxSuiteCycles == 3
\* most middleware definitions of one suite
MaxMiddlewareDefs == 2
\* most sources of one ConfigurationMerger.merge call
MaxSources == 3
\* most backlog tuples the dispatcher of _run_parallel is followed through
MaxGateRows == 3
\* largest `requests` of a FixedWindowRateLimiter
MaxRequests == 2
\* largest `per_seconds` of a FixedWindowRateLimiter, in ticks
MaxPerSeconds == 2

(***************************************************************************)
(* Optional values: Python's None is the empty sequence, a value v is <<v>>*)
(***************************************************************************)
None == <<>>

Some(v) == <<v>>

\* the elements of a sequence, as a set
Range(s) == {s[i] : i \in 1..Len(s)}

(***************************************************************************)
(* Row identifiers.  A row id is the value of the checkpoint field in the  *)
(* row context: an integer or a string.  kind is its Python type and text  *)
(* the characters of str(id).                                              *)
(***************************************************************************)
IntId0 == [kind |-> "int", text |-> <<"0">>]

StrA == [kind |-> "str", text |-> <<"a">>]

StrSpA == [kind |-> "str", text |-> <<" ", "a">>]

\* the row id of a tuple when no checkpoint field is configured (None)
NoId == [kind |-> "none", text |-> <<>>]

RowIdValues == {IntId0, StrA, StrSpA}

\* Python truthiness of a row id: `if checkpoint_manager and row_id`
Truthy(id) ==
    CASE id.kind = "int" -> id.text # <<"0">>
      [] id.kind = "str" -> id.text # <<>>
      [] OTHER -> FALSE

\* str(row_id)
Str(id) == id.text

IsSpace(c) == c \in {" ", "\t", "\n"}

RECURSIVE LStrip(_)
LStrip(s) == IF s # <<>> /\ IsSpace(Head(s)) THEN LStrip(Tail(s)) ELSE s

RECURSIVE RStrip(_)
RStrip(s) ==
    IF s # <<>> /\ IsSpace(s[Len(s)]) THEN RStrip(SubSeq(s, 1, Len(s) - 1)) ELSE s

\* line.strip()
Strip(s) == RStrip(LStrip(s))

\* CheckpointManager._load_checkpoint: the stripped, non-empty lines of the file
LoadCheckpoint(file) == {Strip(file[i]) : i \in 1..Len(file)} \ {<<>>}

\* is_processed that finds no id
IsProcessedNever(ids, text) == FALSE

\* CheckpointManager.is_processed
IsProcessed(ids, text) == text \in ids

(***************************************************************************)
(* Configuration of a cycle.                                               *)
(*   checkpoint : checkpoint_config is set                                 *)
(*   enabled, max_workers, backlog_threshold : concurrency_config          *)
(*   plugins    : the halt-condition plugins, in list order                *)
(*   min_rows, threshold : options of the threshold plugin                 *)
(***************************************************************************)
HaltSetups ==
    { [plugins |-> <<>>, min_rows |-> 1],
      [plugins |-> <<"threshold">>, min_rows |-> 1],
      [plugins |-> <<"faulty", "threshold">>, min_rows |-> 2] }

RunnerConfigs ==
    { [checkpoint |-> ck, enabled |-> en, max_workers |-> MaxWorkers,
       backlog_threshold |-> 2, plugins |-> h.plugins, min_rows |-> h.min_rows,
       threshold |-> 1]
        : ck \in BOOLEAN, en \in BOOLEAN, h \in HaltSetups }

\* SDARunner._should_run_parallel
ShouldRunParallel(config, backlog_size) ==
    IF ~config.enabled THEN FALSE
    ELSE IF config.max_workers <= 1 THEN FALSE
    ELSE backlog_size >= config.backlog_threshold

VARIABLES
    df,                 \* the input batch: a sequence of row ids
    cfg,                \* the cycle's configuration
    run,                \* number of SDARunner.run calls started
    pc,                 \* position of the thread that called run
    rows_to_process,    \* the backlog: tuples (idx, row_id)
    next_i,             \* loop position in rows_to_process
    payload,            \* the payload build_payload returned
    checkpoint_file,    \* the lines of the checkpoint file
    processed_ids,      \* CheckpointManager._processed_ids
    results_with_index, \* ResultAggregator._results_with_index
    failures,           \* ResultAggregator._failures
    event,              \* EarlyStopCoordinator._event is set
    reason,             \* EarlyStopCoordinator._reason
    rows_observed,      \* ThresholdEarlyStopPlugin._rows_observed
    triggered_reason,   \* ThresholdEarlyStopPlugin._triggered_reason
    queue,              \* work items submitted to the pool, not yet started
    tpc,                \* per thread: its position in worker / row handling
    tdata,              \* per thread: the tuple it is processing
    tres,               \* per thread: the (record, failure) process_row gave
    lock,               \* holder of _run_parallel's lock, 0 when free
    handed,             \* history: per idx, the process_row calls of this run
    llm_calls,          \* history: idx of the rows the LLM was called for
    resorted,           \* history: build_payload's sort changed the order
    accepted,           \* history: row ids a record was accepted for, ever
    recorded,           \* history: idx of the rows a record was accepted for, ever
    sunk,               \* history: idx of the rows whose record the sinks got, ever
    loaded,             \* history: the ids the checkpoint manager loaded
    cthread,            \* per caller of check_record: position and locals
    coord_lock,         \* holder of EarlyStopCoordinator._lock, 0 when free
    calls,              \* number of check_record calls started
    plugin_calls,       \* history: number of plugin.check invocations
    late_returned,      \* history: a call made after the signal has returned
    ex_cfg,             \* LLMExecutor: retry_config, middlewares, controls
    ex_pc,              \* position inside LLMExecutor.execute
    attempt,            \* execute's local `attempt`
    cur_error,          \* the exception the current attempt raised
    last_error,         \* execute's local `last_error`
    attempt_history,    \* execute's local `attempt_history`
    mw_k,               \* position in the middleware loop being run
    ex_result,          \* what execute returned or raised
    ex_request,         \* execute's local `request`
    response,           \* execute's local `response`
    error_retry,        \* the _dmp_retry_* attributes set on last_error
    generate_log,       \* history: the llm_client.generate calls
    hook_log,           \* history: the on_retry_exhausted calls
    mw_log,             \* history: the before_request / after_response calls
    bindings,           \* ArtifactPipeline._bindings
    pl_pc,              \* position in ArtifactPipeline.__init__ / execute
    dependencies,       \* _resolve_order's `dependencies`
    dependents,         \* _resolve_order's `dependents`
    ready,              \* _resolve_order's `ready` deque
    ordered,            \* _resolve_order's `ordered`, then _ordered_bindings
    exec_k,             \* execute's position in _ordered_bindings
    consumed,           \* execute's local `consumed`
    store,              \* the ArtifactStore of this execute call
    pl_error,           \* the exception the pipeline raised
    sink_log,           \* history: the sink methods invoked
    handoffs,           \* history: per binding reached, what was resolved
    register_log,       \* history: the ArtifactStore.register calls
    cy_cfg,             \* the cycle: rows, criteria, security levels
    active_security_level, \* SDARunner._active_security_level
    rp_security_level,  \* RowProcessor.security_level
    cy_pc,              \* position in run / process_row
    cy_row,             \* the row the loop of run is at
    cy_crit,            \* process_row's position in its criteria loop
    rp_response,        \* process_row's local `response`
    agg_results,        \* the records given to ResultAggregator.add_result
    agg_failures,       \* the failures given to ResultAggregator.add_failure
    metadata,           \* payload["metadata"] of the cycle
    exec_calls,         \* history: the executor calls of the cycle
    su_kind,            \* which orchestrator class runs the suite
    su_suite,           \* suite.cycles
    su_hooks,           \* the lifecycle hooks each middleware defines
    su_pc,              \* position in the orchestrator's run
    experiments,        \* run's list of cycles to execute: suite positions
    su_i,               \* position of run's loop over the cycles
    su_mws,             \* run's local `middlewares` of the current cycle
    notified,           \* run's local `notified_middlewares`, insertion order
    baseline_payload,   \* run's local `baseline_payload`
    su_results,         \* run's local `results`
    shared_middlewares, \* StandardOrchestrator._shared_middlewares
    su_log,             \* history: runs and hooks called
    mg_sources,         \* the sources given to ConfigurationMerger.merge
    mg_pc,              \* position in merge
    sorted_sources,     \* merge's local `sorted_sources`
    mg_k,               \* position of merge's loop over sorted_sources
    merged,             \* merge's local `merged`
    merge_trace,        \* ConfigurationMerger._merge_trace
    mg_error,           \* the exception merge raised
    explanation,        \* what explain returned, by its parts
    rl_cfg,             \* the limiter's requests and per_seconds, the cycle's
                        \* utilization_pause and number of backlog tuples
    bp_pc,              \* position of _run_parallel's dispatcher
    bp_i,               \* the backlog tuple its loop is at
    bp_queue,           \* work items submitted to the pool, not yet started
    bp_sleep,           \* what is left of the dispatcher's time.sleep
    bp_finished,        \* history: number of tuples whose worker has returned
    wk_pc,              \* per pool thread: its position in worker / acquire
    wk_elapsed,         \* per pool thread: acquire's local `elapsed`
    wk_sleep,           \* per pool thread: what is left of acquire's sleep
    rl_lock,            \* holder of FixedWindowRateLimiter._lock, 0 when free
    window_age,         \* time since _window_start, counted up to per_seconds
    rl_count,           \* FixedWindowRateLimiter._count
    usage_ratio,        \* FixedWindowRateLimiter._usage_ratio
    admitted,           \* history: acquisitions since the last window reset
    full_seen,          \* history: per thread, it found the window full and
                        \* no reset has happened since
    waited,             \* history: per thread, it slept in this acquire
    br_defaults,        \* build_runner's argument `defaults`
    br_config,          \* build_runner's argument `config`, the prompt fields
    br_pc,              \* position in build_runner
    br_merged,          \* build_runner's local `merged`
    br_result           \* the runner's prompts, or the error raised

confVars == <<df, cfg>>

ctlVars == <<run, pc, rows_to_process, next_i, payload>>

ckptVars == <<checkpoint_file, processed_ids>>

aggVars == <<results_with_index, failures>>

haltVars == <<event, reason, rows_observed, triggered_reason>>

poolVars == <<queue, tpc, tdata, tres, lock>>

histVars == <<handed, llm_calls, resorted, accepted, recorded, sunk, loaded>>

runnerVars ==
    <<confVars, ctlVars, ckptVars, aggVars, haltVars, poolVars, histVars>>

coordVars == <<cthread, coord_lock, calls, plugin_calls, late_returned>>

execVars ==
    <<ex_cfg, ex_pc, attempt, cur_error, last_error, attempt_history, mw_k,
      ex_result, ex_request, response, error_retry, generate_log,
      hook_log, mw_log>>

pipeVars ==
    <<bindings, pl_pc, dependencies, dependents, ready, ordered, exec_k,
      consumed, store, pl_error, sink_log, handoffs, register_log>>

cycleVars ==
    <<cy_cfg, active_security_level, rp_security_level, cy_pc, cy_row, cy_crit,
      rp_response, agg_results, agg_failures, metadata, exec_calls>>

suiteVars ==
    <<su_kind, su_suite, su_hooks, su_pc, experiments, su_i, su_mws, notified,
      baseline_payload, su_results, shared_middlewares, su_log>>

mergeVars ==
    <<mg_sources, mg_pc, sorted_sources, mg_k, merged, merge_trace, mg_error,
      explanation>>

gateVars ==
    <<rl_cfg, bp_pc, bp_i, bp_queue, bp_sleep, bp_finished, wk_pc, wk_elapsed,
      wk_sleep, rl_lock, window_age, rl_count, usage_ratio, admitted, full_seen,
      waited>>

buildVars == <<br_defaults, br_config, br_pc, br_merged, br_result>>

\* what the actions of the cycle runner leave alone
notRunnerVars ==
    <<coordVars, execVars, pipeVars, cycleVars, suiteVars, mergeVars,
      gateVars, buildVars>>

\* what the actions of check_record leave alone, the runner's state aside
notCoordVars ==
    <<execVars, pipeVars, cycleVars, suiteVars, mergeVars,
      gateVars, buildVars>>

\* what the actions of LLMExecutor leave alone
notExecVars ==
    <<runnerVars, coordVars, pipeVars, cycleVars, suiteVars, mergeVars,
      gateVars, buildVars>>

\* what the actions of ArtifactPipeline leave alone
notPipeVars ==
    <<runnerVars, coordVars, execVars, cycleVars, suiteVars, mergeVars,
      gateVars, buildVars>>

\* what the actions of a followed cycle leave alone
notCycleVars ==
    <<runnerVars, coordVars, execVars, pipeVars, suiteVars, mergeVars,
      gateVars, buildVars>>

\* what the actions of a suite orchestrator leave alone
notSuiteVars ==
    <<runnerVars, coordVars, execVars, pipeVars, cycleVars, mergeVars, gateVars,
      buildVars>>

\* what the actions of ConfigurationMerger leave alone
notMergeVars ==
    <<runnerVars, coordVars, execVars, pipeVars, cycleVars, suiteVars, gateVars,
      buildVars>>

\* what the actions of the backpressure gate and the rate limiter leave alone
notGateVars ==
    <<runnerVars, coordVars, execVars, pipeVars, cycleVars, suiteVars, mergeVars,
      buildVars>>

\* what the actions of build_runner leave alone
notBuildVars ==
    <<runnerVars, coordVars, execVars, pipeVars, cycleVars, suiteVars, mergeVars,
      gateVars>>

vars ==
    <<runnerVars, coordVars, execVars, pipeVars, cycleVars, suiteVars, mergeVars,
      gateVars, buildVars>>

\* thread 0 calls run; threads 1..max_workers are the pool's
Threads == 0..MaxWorkers

\* the input indexes (DataFrame positions, from 0)
RowIndexes == 0..(MaxRows - 1)

(***************************************************************************)
(* RowProcessor.process_row.  The environment (template rendering, the LLM *)
(* behind the executor, the transform plugins) decides which stage raises; *)
(* the result is the pair (record, failure), or an exception that leaves   *)
(* process_row (raised).  metrics is the optional "score" metric of the    *)
(* response; llm tells whether the LLM was reached.  A failure has         *)
(* error_type "PromptRenderingError" (the first except clause: no LLM call *)
(* was made) or "Exception" (the second: the LLM call failed after its     *)
(* retries, or a transform plugin raised).                                 *)
(***************************************************************************)
Metrics == {None, Some(0), Some(1)}

ErrorTypes == {"PromptRenderingError", "Exception"}

Record(data, m) == [idx |-> data.idx, row_id |-> data.row_id, metrics |-> m]

Failure(data, e) == [idx |-> data.idx, row_id |-> data.row_id, error_type |-> e]

\* an except clause that reports the failure and still returns a record
CatchErrorKeepsRecord(data, e) ==
    [record |-> Some(Record(data, None)), failure |-> Some(Failure(data, e)),
     raised |-> FALSE, llm |-> (e # "PromptRenderingError")]

\* an except clause that re-raises instead of returning a failure
CatchErrorReraises(data, e) ==
    [record |-> None, failure |-> None, raised |-> TRUE,
     llm |-> (e # "PromptRenderingError")]

\* what process_row does with an exception of type e raised inside its try
\* block: both except clauses return (None, failure)
CatchError(data, e) ==
    [record |-> None, failure |-> Some(Failure(data, e)), raised |-> FALSE,
     llm |-> (e # "PromptRenderingError")]

ProcessRow(data) ==
    { [record |-> Some(Record(data, m)), failure |-> None, raised |-> FALSE,
       llm |-> TRUE] : m \in Metrics }
    \cup
    { CatchError(data, e) : e \in ErrorTypes }

\* the locals of a thread that is not processing a row
NoData == [idx |-> 0, row_id |-> NoId]

NoResult == [record |-> None, failure |-> None, raised |-> FALSE, llm |-> FALSE]

(***************************************************************************)
(* ThresholdEarlyStopPlugin.check and EarlyStopCoordinator.check_record.   *)
(* st is the coordinator's and the plugin's state.                         *)
(***************************************************************************)
Compare(value, threshold, comparison) ==
    CASE comparison = "gt" -> value > threshold
      [] comparison = "lte" -> value <= threshold
      [] comparison = "lt" -> value < threshold
      [] OTHER -> value >= threshold

\* returns the plugin's new state and the reason it returns (or None)
ThresholdCheck(config, st, record, row_index) ==
    IF st.triggered_reason # None
    THEN [st |-> st, reason |-> st.triggered_reason]
    ELSE IF record.metrics = None
    THEN [st |-> st, reason |-> None]
    ELSE LET n == st.rows_observed + 1
             value == record.metrics[1]
             st1 == [st EXCEPT !.rows_observed = n]
             r == [metric |-> "score", threshold |-> config.threshold,
                   value |-> value, rows_observed |-> n, row_index |-> row_index]
         IN IF n < config.min_rows
            THEN [st |-> st1, reason |-> None]
            ELSE IF ~Compare(value, config.threshold, "gte")
            THEN [st |-> st1, reason |-> None]
            ELSE [st |-> [st1 EXCEPT !.triggered_reason = Some(r)],
                  reason |-> Some(r)]

\* the loop of _evaluate over the plugins, from plugin k on; a "faulty" plugin
\* raises in check, which the loop logs and skips
RECURSIVE Evaluate(_, _, _, _, _)
Evaluate(config, k, st, record, row_index) ==
    IF k > Len(config.plugins) THEN st
    ELSE IF config.plugins[k] = "faulty"
    THEN Evaluate(config, k + 1, st, record, row_index)
    ELSE LET c == ThresholdCheck(config, st, record, row_index)
         IN IF c.reason = None
            THEN Evaluate(config, k + 1, c.st, record, row_index)
            ELSE [c.st EXCEPT
                    !.reason = Some([plugin |-> config.plugins[k],
                                     detail |-> c.reason[1]]),
                    !.event = TRUE]

\* EarlyStopCoordinator.check_record, called by one thread at a time
CheckRecord(config, st, record, row_index) ==
    IF config.plugins = <<>> \/ st.event THEN st
    ELSE IF st.reason # None THEN st
    ELSE Evaluate(config, 1, st, record, row_index)

\* is_stopped that never sees the signal
IsStoppedNever == FALSE

\* EarlyStopCoordinator.is_stopped
IsStopped == event

CoordState ==
    [event |-> event, reason |-> reason, rows_observed |-> rows_observed,
     triggered_reason |-> triggered_reason]

(***************************************************************************)
(* SDARunner.run: construction of the collaborators and the backlog.       *)
(***************************************************************************)
RECURSIVE BuildBacklog(_, _, _, _, _)
BuildBacklog(d, config, ids, stopped, i) ==
    IF i > Len(d) \/ stopped THEN <<>>
    ELSE LET row_id == IF config.checkpoint THEN d[i] ELSE NoId
             rest == BuildBacklog(d, config, ids, stopped, i + 1)
         IN IF config.checkpoint /\ Truthy(row_id) /\ IsProcessed(ids, Str(row_id))
            THEN rest
            ELSE <<[idx |-> i - 1, row_id |-> row_id]>> \o rest

NotHanded == [i \in RowIndexes |-> 0]

RunBegin ==
    /\ pc \in {"init", "done", "interrupted"}
    /\ run < MaxRuns
    /\ LET ids == IF cfg.checkpoint THEN LoadCheckpoint(checkpoint_file) ELSE {}
           backlog == BuildBacklog(df, cfg, ids, FALSE, 1)
       IN /\ processed_ids' = ids
          /\ loaded' = ids
          /\ rows_to_process' = backlog
          /\ pc' = IF backlog # <<>> /\ ShouldRunParallel(cfg, Len(backlog))
                   THEN "dispatch" ELSE "seq"
    /\ run' = run + 1
    /\ event' = FALSE
    /\ reason' = None
    /\ rows_observed' = 0
    /\ triggered_reason' = None
    /\ next_i' = 1
    /\ results_with_index' = <<>>
    /\ failures' = <<>>
    /\ payload' = None
    /\ handed' = NotHanded
    /\ llm_calls' = {}
    /\ resorted' = FALSE
    /\ UNCHANGED <<notRunnerVars, confVars, checkpoint_file, poolVars, accepted,
                   recorded, sunk>>

\* thread t calls row_processor.process_row on its tuple; an exception that
\* process_row lets through leaves the caller, which goes to `escaped`
CallProcessRow(t, data, returned, escaped) ==
    \E out \in ProcessRow(data) :
        /\ tres' = [tres EXCEPT ![t] = out]
        /\ tdata' = [tdata EXCEPT ![t] = data]
        /\ tpc' = [tpc EXCEPT ![t] = IF out.raised THEN escaped ELSE returned]
        /\ handed' = [handed EXCEPT ![data.idx] = @ + 1]
        /\ llm_calls' = IF out.llm THEN llm_calls \cup {data.idx} ELSE llm_calls

(***************************************************************************)
(* Sequential mode: the loop of run over rows_to_process.                  *)
(***************************************************************************)
SeqProcess ==
    /\ pc = "seq"
    /\ tpc[0] = "idle"
    /\ next_i <= Len(rows_to_process)
    /\ ~IsStopped
    /\ CallProcessRow(0, rows_to_process[next_i], "commit", "idle")
    /\ pc' = IF tpc'[0] = "idle" THEN "raised" ELSE pc
    /\ UNCHANGED <<notRunnerVars, confVars, run, rows_to_process, next_i, payload, ckptVars,
                   aggVars, haltVars, queue, lock, resorted, accepted, recorded,
                   sunk, loaded>>

SeqBreak ==
    /\ pc = "seq"
    /\ tpc[0] = "idle"
    /\ (next_i > Len(rows_to_process) \/ IsStopped)
    /\ pc' = "build"
    /\ UNCHANGED <<notRunnerVars, confVars, run, rows_to_process, next_i, payload, ckptVars,
                   aggVars, haltVars, poolVars, histVars>>

(***************************************************************************)
(* handle_success and handle_failure, run by thread t with the result of   *)
(* process_row: by thread 0 in the loop of run, by a pool worker inside    *)
(* `with lock:`.                                                           *)
(***************************************************************************)
\* ResultAggregator.add_result
AddResult(rs, record, row_index) == Append(rs, <<row_index, record>>)

\* ResultAggregator.add_failure
AddFailure(fs, failure) == Append(fs, failure)

\* CheckpointManager.mark_processed: the new id set and the new file
MarkProcessed(ids, file, text) ==
    IF text \in ids THEN [ids |-> ids, file |-> file]
    ELSE [ids |-> ids \cup {text}, file |-> Append(file, text)]

\* `if checkpoint_manager and row_id:` of handle_success
ShouldMark(config, row_id) == config.checkpoint /\ Truthy(row_id)

\* the handling entered without `with lock:`
MayEnterUnlocked(t) == TRUE

\* thread t may enter the handling of its result: a worker needs the lock
MayEnter(t) == t = 0 \/ lock = 0

\* `if failure: handle_failure(failure)`, after which thread t is done with
\* its row: a worker leaves `with lock:`, thread 0 goes to the next tuple
FinishRow(t) ==
    /\ failures' = IF tres[t].failure # None
                   THEN AddFailure(failures, tres[t].failure[1])
                   ELSE failures
    /\ tpc' = [tpc EXCEPT ![t] = "idle"]
    /\ tdata' = [tdata EXCEPT ![t] = NoData]
    /\ tres' = [tres EXCEPT ![t] = NoResult]
    /\ lock' = 0
    /\ next_i' = IF t = 0 THEN next_i + 1 ELSE next_i

\* `if record:` holds; handle_success starts with aggregator.add_result
HandleSuccessAdd(t) ==
    /\ tpc[t] = "commit"
    /\ tres[t].record # None
    /\ MayEnter(t)
    /\ lock' = t
    /\ results_with_index' =
           AddResult(results_with_index, tres[t].record[1], tdata[t].idx)
    /\ accepted' = accepted \cup {tdata[t].row_id}
    /\ recorded' = recorded \cup {tdata[t].idx}
    /\ tpc' = [tpc EXCEPT ![t] = "mark"]
    /\ UNCHANGED <<notRunnerVars, confVars, ctlVars, ckptVars, failures, haltVars, queue, tdata,
                   tres, handed, llm_calls, resorted, sunk, loaded>>

\* handle_success: checkpoint_manager.mark_processed
HandleSuccessMark(t) ==
    /\ tpc[t] = "mark"
    /\ LET m == IF ShouldMark(cfg, tdata[t].row_id)
                THEN MarkProcessed(processed_ids, checkpoint_file,
                                   Str(tdata[t].row_id))
                ELSE [ids |-> processed_ids, file |-> checkpoint_file]
       IN /\ processed_ids' = m.ids
          /\ checkpoint_file' = m.file
    /\ tpc' = [tpc EXCEPT ![t] = "check"]
    /\ UNCHANGED <<notRunnerVars, confVars, ctlVars, aggVars, haltVars, queue, tdata, tres, lock,
                   histVars>>

\* handle_success: check_record; then `if failure:` and the row is finished
HandleSuccessCheck(t) ==
    /\ tpc[t] = "check"
    /\ LET st == CheckRecord(cfg, CoordState, tres[t].record[1], tdata[t].idx)
       IN /\ event' = st.event
          /\ reason' = st.reason
          /\ rows_observed' = st.rows_observed
          /\ triggered_reason' = st.triggered_reason
    /\ FinishRow(t)
    /\ UNCHANGED <<notRunnerVars, confVars, run, pc, rows_to_process, payload, ckptVars,
                   results_with_index, queue, histVars>>

\* `if record:` fails; `if failure: handle_failure(failure)`
HandleFailure(t) ==
    /\ tpc[t] = "commit"
    /\ tres[t].record = None
    /\ MayEnter(t)
    /\ FinishRow(t)
    /\ UNCHANGED <<notRunnerVars, confVars, run, pc, rows_to_process, payload, ckptVars,
                   results_with_index, haltVars, queue, histVars>>

(***************************************************************************)
(* Parallel mode: SDARunner._run_parallel.                                 *)
(***************************************************************************)
Workers == 1..cfg.max_workers

\* the dispatcher submits the next tuple to the pool
DispatchSubmit ==
    /\ pc = "dispatch"
    /\ next_i <= Len(rows_to_process)
    /\ ~IsStopped
    /\ queue' = Append(queue, rows_to_process[next_i])
    /\ next_i' = next_i + 1
    /\ UNCHANGED <<notRunnerVars, confVars, run, pc, rows_to_process, payload, ckptVars, aggVars,
                   haltVars, tpc, tdata, tres, lock, histVars>>

\* the dispatcher leaves its loop: the backlog is exhausted or the signal is set
DispatchBreak ==
    /\ pc = "dispatch"
    /\ (next_i > Len(rows_to_process) \/ IsStopped)
    /\ pc' = "join"
    /\ UNCHANGED <<notRunnerVars, confVars, run, rows_to_process, next_i, payload, ckptVars,
                   aggVars, haltVars, poolVars, histVars>>

\* a pool thread starts worker(data) and returns at once if the signal is set
WorkerStart(w) ==
    /\ pc \in {"dispatch", "join"}
    /\ tpc[w] = "idle"
    /\ queue # <<>>
    /\ queue' = Tail(queue)
    /\ IF IsStopped
       THEN UNCHANGED <<tpc, tdata>>
       ELSE /\ tpc' = [tpc EXCEPT ![w] = "process"]
            /\ tdata' = [tdata EXCEPT ![w] = Head(queue)]
    /\ UNCHANGED <<notRunnerVars, confVars, ctlVars, ckptVars, aggVars, haltVars, tres, lock,
                   histVars>>

\* worker: process_row.  An exception it lets through ends the work item: it
\* is kept in the future, which nobody reads
WorkerProcess(w) ==
    /\ tpc[w] = "process"
    /\ CallProcessRow(w, tdata[w], "commit", "idle")
    /\ UNCHANGED <<notRunnerVars, confVars, ctlVars, ckptVars, aggVars, haltVars, queue, lock,
                   resorted, accepted, recorded,
                   sunk, loaded>>

\* leaving `with ThreadPoolExecutor(...)`: every submitted work item has run
Join ==
    /\ pc = "join"
    /\ queue = <<>>
    /\ \A w \in Workers : tpc[w] = "idle"
    /\ pc' = "build"
    /\ UNCHANGED <<notRunnerVars, confVars, run, rows_to_process, next_i, payload, ckptVars,
                   aggVars, haltVars, poolVars, histVars>>

(***************************************************************************)
(* ResultAggregator.build_payload.                                         *)
(***************************************************************************)
\* insert item into a list sorted by item[1], after the items with an equal key
RECURSIVE InsertByIndex(_, _)
InsertByIndex(sorted, item) ==
    IF sorted = <<>> THEN <<item>>
    ELSE IF item[1] < Head(sorted)[1] THEN <<item>> \o sorted
    ELSE <<Head(sorted)>> \o InsertByIndex(Tail(sorted), item)

\* build_payload without the sort: completion order
NoSort(items) == items

\* list.sort(key=lambda item: item[0]): a stable sort
RECURSIVE SortByIndex(_)
SortByIndex(items) ==
    IF items = <<>> THEN <<>>
    ELSE InsertByIndex(SortByIndex(SubSeq(items, 1, Len(items) - 1)),
                       items[Len(items)])

BuildPayloadOf(rs, fs, early_stop_reason) ==
    [results |-> [i \in 1..Len(rs) |-> rs[i][2]],
     failures |-> fs,
     early_stop |-> early_stop_reason]

BuildPayload ==
    /\ pc = "build"
    /\ results_with_index' = SortByIndex(results_with_index)
    /\ payload' = Some(BuildPayloadOf(results_with_index', failures, reason))
    /\ resorted' = (results_with_index' # results_with_index)
    /\ pc' = "sinks"
    /\ UNCHANGED <<notRunnerVars, confVars, run, rows_to_process, next_i, ckptVars, failures,
                   haltVars, poolVars, handed, llm_calls, accepted, recorded, sunk,
                   loaded>>

\* `pipeline.execute(payload, payload["metadata"])` and the return of run:
\* every sink writes the payload, or the pipeline raises (the PermissionError
\* of a clearance check, the error of a sink) before a sink has written and
\* run ends with that exception
ExecutePipeline ==
    /\ pc = "sinks"
    /\ \E raises \in BOOLEAN :
           IF raises
           THEN /\ pc' = "interrupted"
                /\ UNCHANGED sunk
           ELSE /\ pc' = "done"
                /\ sunk' = sunk \cup {payload[1].results[i].idx :
                                          i \in 1..Len(payload[1].results)}
    /\ UNCHANGED <<notRunnerVars, confVars, run, rows_to_process, next_i, payload, ckptVars,
                   aggVars, haltVars, poolVars, handed, llm_calls, resorted, accepted,
                   recorded, loaded>>

(***************************************************************************)
(* The cycle runner's specification.                                       *)
(***************************************************************************)
Batches == UNION {[1..n -> RowIdValues] : n \in 0..MaxRows}

\* a thread that is not inside check_record
NoCall == [pc |-> "idle", metrics |-> None, row_index |-> 0, k |-> 0,
           reason |-> None]

\* EarlyStopCoordinator.check_record is called from handle_success only
CoordUnused ==
    /\ cthread = [t \in 1..MaxCallers |-> NoCall]
    /\ coord_lock = 0
    /\ calls = 0
    /\ plugin_calls = 0
    /\ late_returned = FALSE

\* no LLMExecutor.execute call is modelled
ExecUnused ==
    /\ ex_cfg = [max_attempts |-> 1, middlewares |-> <<>>,
                 rate_limiter |-> FALSE, cost_tracker |-> FALSE,
                 client_retry |-> FALSE]
    /\ ex_pc = "off"
    /\ attempt = 0
    /\ cur_error = None
    /\ last_error = None
    /\ attempt_history = <<>>
    /\ mw_k = 0
    /\ ex_result = None
    /\ ex_request = None
    /\ response = None
    /\ error_retry = None
    /\ generate_log = <<>>
    /\ hook_log = <<>>
    /\ mw_log = <<>>

\* an ArtifactStore as __init__ leaves it
EmptyStore == [by_id |-> <<>>, by_alias |-> <<>>, by_type |-> <<>>]

\* no ArtifactPipeline is modelled
PipeUnused ==
    /\ bindings = <<>>
    /\ pl_pc = "off"
    /\ dependencies = <<>>
    /\ dependents = <<>>
    /\ ready = <<>>
    /\ ordered = <<>>
    /\ exec_k = 0
    /\ consumed = <<>>
    /\ store = EmptyStore
    /\ pl_error = None
    /\ sink_log = <<>>
    /\ handoffs = <<>>
    /\ register_log = <<>>

\* no cycle is followed through the executor
CycleUnused ==
    /\ cy_cfg = [rows |-> 1, criteria |-> 0, security_level |-> None,
                 df_security_level |-> None]
    /\ active_security_level = None
    /\ rp_security_level = None
    /\ cy_pc = "off"
    /\ cy_row = 0
    /\ cy_crit = 0
    /\ rp_response = None
    /\ agg_results = <<>>
    /\ agg_failures = <<>>
    /\ metadata = None
    /\ exec_calls = <<>>

\* no suite orchestrator is modelled
SuiteUnused ==
    /\ su_kind = "standard"
    /\ su_suite = <<>>
    /\ su_hooks = <<>>
    /\ su_pc = "off"
    /\ experiments = <<>>
    /\ su_i = 0
    /\ su_mws = <<>>
    /\ notified = <<>>
    /\ baseline_payload = None
    /\ su_results = <<>>
    /\ shared_middlewares = {}
    /\ su_log = <<>>

\* no ConfigurationMerger.merge call is modelled
MergeUnused ==
    /\ mg_sources = <<>>
    /\ mg_pc = "off"
    /\ sorted_sources = <<>>
    /\ mg_k = 0
    /\ merged = <<>>
    /\ merge_trace = <<>>
    /\ mg_error = None
    /\ explanation = None

\* no backpressure gate and no rate limiter is modelled
GateUnused ==
    /\ rl_cfg = [requests |-> 1, per_seconds |-> 1, pause |-> 0, rows |-> 0]
    /\ bp_pc = "off"
    /\ bp_i = 0
    /\ bp_queue = 0
    /\ bp_sleep = 0
    /\ bp_finished = 0
    /\ wk_pc = [w \in 1..MaxWorkers |-> "idle"]
    /\ wk_elapsed = [w \in 1..MaxWorkers |-> 0]
    /\ wk_sleep = [w \in 1..MaxWorkers |-> 0]
    /\ rl_lock = 0
    /\ window_age = 0
    /\ rl_count = 0
    /\ usage_ratio = 0
    /\ admitted = 0
    /\ full_seen = [w \in 1..MaxWorkers |-> FALSE]
    /\ waited = [w \in 1..MaxWorkers |-> FALSE]

\* no build_runner call is modelled
BuildUnused ==
    /\ br_defaults = <<>>
    /\ br_config = <<>>
    /\ br_pc = "off"
    /\ br_merged = <<>>
    /\ br_result = None

\* no SDARunner is modelled
RunnerUnused ==
    /\ df = <<>>
    /\ cfg = CHOOSE c \in RunnerConfigs : ~c.checkpoint /\ ~c.enabled /\ c.plugins = <<>>
    /\ run = 0
    /\ pc = "off"
    /\ rows_to_process = <<>>
    /\ next_i = 1
    /\ payload = None
    /\ checkpoint_file = <<>>
    /\ processed_ids = {}
    /\ results_with_index = <<>>
    /\ failures = <<>>
    /\ event = FALSE
    /\ reason = None
    /\ rows_observed = 0
    /\ triggered_reason = None
    /\ queue = <<>>
    /\ tpc = [t \in Threads |-> "idle"]
    /\ tdata = [t \in Threads |-> NoData]
    /\ tres = [t \in Threads |-> NoResult]
    /\ lock = 0
    /\ handed = NotHanded
    /\ llm_calls = {}
    /\ resorted = FALSE
    /\ accepted = {}
    /\ recorded = {}
    /\ sunk = {}
    /\ loaded = {}

Init ==
    /\ SuiteUnused
    /\ MergeUnused
    /\ GateUnused
    /\ BuildUnused
    /\ CoordUnused
    /\ ExecUnused
    /\ PipeUnused
    /\ CycleUnused
    /\ df \in Batches
    /\ cfg \in RunnerConfigs
    /\ run = 0
    /\ pc = "init"
    /\ rows_to_process = <<>>
    /\ next_i = 1
    /\ payload = None
    /\ checkpoint_file = <<>>
    /\ processed_ids = {}
    /\ results_with_index = <<>>
    /\ failures = <<>>
    /\ event = FALSE
    /\ reason = None
    /\ rows_observed = 0
    /\ triggered_reason = None
    /\ queue = <<>>
    /\ tpc = [t \in Threads |-> "idle"]
    /\ tdata = [t \in Threads |-> NoData]
    /\ tres = [t \in Threads |-> NoResult]
    /\ lock = 0
    /\ handed = NotHanded
    /\ llm_calls = {}
    /\ resorted = FALSE
    /\ accepted = {}
    /\ recorded = {}
    /\ sunk = {}
    /\ loaded = {}

Next ==
    \/ RunBegin
    \/ SeqProcess
    \/ SeqBreak
    \/ \E t \in Threads : HandleSuccessAdd(t)
    \/ \E t \in Threads : HandleSuccessMark(t)
    \/ \E t \in Threads : HandleSuccessCheck(t)
    \/ \E t \in Threads : HandleFailure(t)
    \/ DispatchSubmit
    \/ DispatchBreak
    \/ \E w \in Workers : WorkerStart(w)
    \/ \E w \in Workers : WorkerProcess(w)
    \/ Join
    \/ BuildPayload
    \/ ExecutePipeline

Spec == Init /\ [][Next]_vars

(***************************************************************************)
(* Properties of the cycle runner.                                         *)
(***************************************************************************)
\* the run in progress dispatches its rows to the thread pool
Parallel == rows_to_process # <<>> /\ ShouldRunParallel(cfg, Len(rows_to_process))

Count(seq, P(_)) == Cardinality({i \in 1..Len(seq) : P(seq[i])})

ResultsFor(idx) == Count(results_with_index, LAMBDA item : item[2].idx = idx)

FailuresFor(idx) == Count(failures, LAMBDA f : f.idx = idx)

BacklogIdx == {rows_to_process[k].idx : k \in 1..Len(rows_to_process)}

\* the rows handed to the row processor in this run
HandedIdx == {idx \in RowIndexes : handed[idx] > 0}

\* C1: at the end of run, in sequential and in parallel mode, no row was handed
\* to the row processor twice, every row handed to it has exactly one entry in
\* results or failures, and len(results) + len(failures) is the number of rows
\* attempted.
C1_ExactlyOneOutcome ==
    pc = "done" =>
        /\ \A idx \in RowIndexes : handed[idx] <= 1
        /\ \A idx \in RowIndexes : ResultsFor(idx) + FailuresFor(idx) = handed[idx]
        /\ Len(results_with_index) + Len(failures) = Cardinality(HandedIdx)

C1_Witness ==
    /\ pc = "done"
    /\ Parallel
    /\ Cardinality(HandedIdx) = 2
    /\ Len(results_with_index) = 1
    /\ Len(failures) = 1

\* C2: for every completion order of the workers, and in sequential mode, the
\* results list of the final payload is strictly increasing in the input index.
C2_ResultsSorted ==
    pc = "done" =>
        \A i, j \in 1..Len(payload[1].results) :
            i < j => payload[1].results[i].idx < payload[1].results[j].idx

C2_Witness ==
    /\ pc = "done"
    /\ Parallel
    /\ resorted
    /\ Len(payload[1].results) = 2

\* C4: a row whose rendering, LLM call or transform raises gives a Failure for
\* that row only: run does not raise, and unless the halt signal is set every
\* backlog row is processed, in sequential and in parallel mode.
C4_FailureDoesNotAbort ==
    /\ pc # "raised"
    /\ pc = "done" /\ ~event =>
           /\ HandedIdx = BacklogIdx
           /\ \A idx \in BacklogIdx : ResultsFor(idx) + FailuresFor(idx) = 1

C4_Witness ==
    /\ pc = "done"
    /\ ~event
    /\ Len(rows_to_process) = 2
    /\ FailuresFor(rows_to_process[1].idx) = 1
    /\ ResultsFor(rows_to_process[2].idx) = 1

\* C5: a row id is in the checkpoint file if and only if a record was accepted
\* for a row with that id in this run or an earlier one.
C5_CheckpointIffAccepted ==
    cfg.checkpoint /\ pc = "done" =>
        \A id \in RowIdValues :
            (Str(id) \in Range(checkpoint_file)) <=> (id \in accepted)

\* every row of the batch has an id that handle_success checkpoints and that
\* reads back from the file as written
PlainIds == \A k \in 1..Len(df) : Truthy(df[k]) /\ Strip(Str(df[k])) = Str(df[k])

Checkpointed(k) == cfg.checkpoint /\ Truthy(df[k]) /\ Str(df[k]) \in loaded

C8_SequentialHaltStops ==
    ~Parallel /\ event =>
        LET trigger == reason[1].detail.row_index
        IN /\ \A idx \in HandedIdx : idx <= trigger
           /\ \A idx \in llm_calls : idx <= trigger
           /\ results_with_index # <<>>
           /\ results_with_index[Len(results_with_index)][1] = trigger
           /\ \A i \in 1..Len(results_with_index) :
                  results_with_index[i][1] <= trigger

C8_Witness ==
    /\ ~Parallel
    /\ event
    /\ pc = "done"
    /\ Len(rows_to_process) = 2
    /\ reason[1].detail.row_index = rows_to_process[1].idx
    /\ HandedIdx = {rows_to_process[1].idx}

\* worker w is inside handle_success, past add_result
InSection(w) == tpc[w] \in {"mark", "check"}

\* the state that handle_success and handle_failure write
handledVars == <<aggVars, ckptVars, haltVars>>

\* C24: in parallel mode add_result, mark_processed and check_record of one
\* row are one critical section: the worker inside holds the lock, its
\* record is in the results before its id is written, no other worker starts
\* handling a success or a failure meanwhile, and the results, the failures,
\* the checkpoint and the halt state change only by the steps of that worker.
C24_CriticalSection ==
    [][/\ pc \in {"dispatch", "join"} /\ ckptVars' # ckptVars =>
              \E w \in 1..MaxWorkers : tpc[w] = "mark" /\ tpc'[w] = "check"
       /\ \A w \in 1..MaxWorkers :
           InSection(w) =>
               /\ lock = w
               /\ ResultsFor(tdata[w].idx) >= 1
               /\ \A u \in (1..MaxWorkers) \ {w} :
                      /\ ~InSection(u)
                      /\ tpc[u] = "commit" => tpc'[u] = "commit"
               /\ handledVars' # handledVars => tpc'[w] # tpc[w]]_vars

\* a worker is between add_result and check_record while another worker has
\* its result ready and waits for the lock
C24_Witness ==
    \E w, u \in 1..MaxWorkers :
        /\ w # u
        /\ tpc[w] = "check"
        /\ tpc[u] = "commit"
        /\ tres[u].record # None
        /\ cfg.checkpoint
        /\ Str(tdata[w].row_id) \in processed_ids

(***************************************************************************)
(* EarlyStopCoordinator.check_record, statement by statement, called by    *)
(* several threads on one coordinator without any outer lock.  cthread[t]  *)
(* holds the record's metrics, row_index, the loop position k and the      *)
(* local variable `reason` of thread t.                                    *)
(***************************************************************************)
Callers == 1..MaxCallers

\* `if not self._event or self._event.is_set(): return`
GuardEvent(config, ev) == config.plugins = <<>> \/ ev

\* `if not self.plugins or self._reason: return`
GuardReason(config, rs) == config.plugins = <<>> \/ rs # None

\* _evaluate without its own guard: the plugins run whatever the signal says
GuardEvaluateNever(ev, rs) == FALSE

\* _evaluate: `if self._event.is_set() or self._reason: return`
GuardEvaluate(ev, rs) == ev \/ rs # None

\* thread t calls check_record(record, row_index) and passes the first guard
CheckRecordCall(t) ==
    /\ pc = "coord"
    /\ cthread[t].pc = "idle"
    /\ calls < MaxCalls
    /\ calls' = calls + 1
    /\ \E m \in Metrics, i \in RowIndexes :
           cthread' = [cthread EXCEPT ![t] =
               IF GuardEvent(cfg, event) THEN NoCall
               ELSE [NoCall EXCEPT !.pc = "guard", !.metrics = m, !.row_index = i]]
    /\ late_returned' = (late_returned \/ event)
    /\ UNCHANGED <<notCoordVars, runnerVars, coord_lock, plugin_calls>>

\* the second guard
CheckRecordGuard(t) ==
    /\ cthread[t].pc = "guard"
    /\ cthread' = [cthread EXCEPT ![t] =
           IF GuardReason(cfg, reason) THEN NoCall ELSE [@ EXCEPT !.pc = "acquire"]]
    /\ UNCHANGED <<notCoordVars, runnerVars, coord_lock, calls, plugin_calls, late_returned>>

\* `with self._lock:` and the guard at the head of _evaluate
CheckRecordAcquire(t) ==
    /\ cthread[t].pc = "acquire"
    /\ coord_lock = 0
    /\ IF GuardEvaluate(event, reason)
       THEN /\ cthread' = [cthread EXCEPT ![t] = NoCall]
            /\ UNCHANGED coord_lock
       ELSE /\ cthread' = [cthread EXCEPT ![t] = [@ EXCEPT !.pc = "plugin", !.k = 1]]
            /\ coord_lock' = t
    /\ UNCHANGED <<notCoordVars, runnerVars, calls, plugin_calls, late_returned>>

\* one turn of `for plugin in self.plugins:`: plugin.check(record, metadata)
CheckRecordPlugin(t) ==
    /\ cthread[t].pc = "plugin"
    /\ cthread[t].k <= Len(cfg.plugins)
    /\ plugin_calls' = plugin_calls + 1
    /\ IF cfg.plugins[cthread[t].k] = "faulty"
       THEN /\ cthread' = [cthread EXCEPT ![t].k = @ + 1]
            /\ UNCHANGED <<rows_observed, triggered_reason>>
       ELSE LET c == ThresholdCheck(cfg, CoordState,
                                    [metrics |-> cthread[t].metrics],
                                    cthread[t].row_index)
            IN /\ rows_observed' = c.st.rows_observed
               /\ triggered_reason' = c.st.triggered_reason
               /\ cthread' = [cthread EXCEPT ![t] =
                      IF c.reason = None THEN [@ EXCEPT !.k = @ + 1]
                      ELSE [@ EXCEPT !.pc = "set_reason",
                               !.reason = Some([plugin |-> cfg.plugins[cthread[t].k],
                                                detail |-> c.reason[1]])]]
    /\ UNCHANGED <<notCoordVars, confVars, ctlVars, ckptVars, aggVars, event, reason, poolVars,
                   histVars, coord_lock, calls, late_returned>>

\* the loop ends without a reason: leave `with self._lock:`
CheckRecordLoopEnd(t) ==
    /\ cthread[t].pc = "plugin"
    /\ cthread[t].k > Len(cfg.plugins)
    /\ cthread' = [cthread EXCEPT ![t] = NoCall]
    /\ coord_lock' = 0
    /\ UNCHANGED <<notCoordVars, runnerVars, calls, plugin_calls, late_returned>>

\* `self._reason = reason`
CheckRecordSetReason(t) ==
    /\ cthread[t].pc = "set_reason"
    /\ reason' = cthread[t].reason
    /\ cthread' = [cthread EXCEPT ![t].pc = "set_event"]
    /\ UNCHANGED <<notCoordVars, confVars, ctlVars, ckptVars, aggVars, event, rows_observed,
                   triggered_reason, poolVars, histVars, coord_lock, calls,
                   plugin_calls, late_returned>>

\* `self._event.set()`, `break`, leave `with self._lock:`
CheckRecordSetEvent(t) ==
    /\ cthread[t].pc = "set_event"
    /\ event' = TRUE
    /\ cthread' = [cthread EXCEPT ![t] = NoCall]
    /\ coord_lock' = 0
    /\ UNCHANGED <<notCoordVars, confVars, ctlVars, ckptVars, aggVars, reason, rows_observed,
                   triggered_reason, poolVars, histVars, calls, plugin_calls,
                   late_returned>>

\* a coordinator built by run for one of the halt setups, its plugins reset
InitCoord ==
    /\ SuiteUnused
    /\ MergeUnused
    /\ GateUnused
    /\ BuildUnused
    /\ CoordUnused
    /\ ExecUnused
    /\ PipeUnused
    /\ CycleUnused
    /\ df = <<>>
    /\ cfg \in {c \in RunnerConfigs : c.checkpoint /\ c.enabled}
    /\ run = 1
    /\ pc = "coord"
    /\ rows_to_process = <<>>
    /\ next_i = 1
    /\ payload = None
    /\ checkpoint_file = <<>>
    /\ processed_ids = {}
    /\ results_with_index = <<>>
    /\ failures = <<>>
    /\ event = FALSE
    /\ reason = None
    /\ rows_observed = 0
    /\ triggered_reason = None
    /\ queue = <<>>
    /\ tpc = [t \in Threads |-> "idle"]
    /\ tdata = [t \in Threads |-> NoData]
    /\ tres = [t \in Threads |-> NoResult]
    /\ lock = 0
    /\ handed = NotHanded
    /\ llm_calls = {}
    /\ resorted = FALSE
    /\ accepted = {}
    /\ recorded = {}
    /\ sunk = {}
    /\ loaded = {}

NextCoord ==
    \/ \E t \in Callers : CheckRecordCall(t)
    \/ \E t \in Callers : CheckRecordGuard(t)
    \/ \E t \in Callers : CheckRecordAcquire(t)
    \/ \E t \in Callers : CheckRecordPlugin(t)
    \/ \E t \in Callers : CheckRecordLoopEnd(t)
    \/ \E t \in Callers : CheckRecordSetReason(t)
    \/ \E t \in Callers : CheckRecordSetEvent(t)

SpecCoord == InitCoord /\ [][NextCoord]_vars

\* C7: once the coordinator has set the halt signal, is_stopped() stays true
\* and the recorded reason never changes; no check_record call invokes a
\* plugin or changes a plugin's state from then on.
C7_HaltIsFinal ==
    [][event => /\ event'
                /\ reason' = reason
                /\ plugin_calls' = plugin_calls
                /\ rows_observed' = rows_observed
                /\ triggered_reason' = triggered_reason]_vars

\* a call made after the signal was set has returned, and another caller that
\* had passed the guards before the signal has given up inside the lock
C7_Witness ==
    /\ event
    /\ late_returned
    /\ calls >= 3
    /\ \A t \in Callers : cthread[t].pc = "idle"

(***************************************************************************)
(* LLMExecutor.execute and _notify_retry_exhausted, statement by statement.*)
(* A middleware is described by whether it defines on_retry_exhausted; the *)
(* environment decides at each call of a middleware, of the rate limiter,  *)
(* of the cost tracker and of the client whether the call raises.  An      *)
(* error is the pair of the attempt and the call that raised it.           *)
(***************************************************************************)
Middlewares == [hook : BOOLEAN]

MiddlewareLists == UNION {[1..n -> Middlewares] : n \in 0..MaxMiddlewares}

\* retry_config max_attempts (int(...) of the configured value), the
\* middleware chain, whether a rate limiter / cost tracker is configured and
\* whether the responses of the LLM client carry a "retry" key of their own
ExecConfigs ==
    [max_attempts : 0..MaxAttempts, middlewares : MiddlewareLists,
     rate_limiter : BOOLEAN, cost_tracker : BOOLEAN, client_retry : BOOLEAN]

Error(a, stage) == [attempt |-> a, stage |-> stage]

\* entry of attempt_history
AttemptRecord(a, status) == [attempt |-> a, status |-> status]

\* the "retry" dict of a response, the _dmp_retry_* attributes of an error
RetryInfo(a, max_attempts, history) ==
    [attempts |-> a, max_attempts |-> max_attempts, history |-> history]

\* a "retry" value that a client put into its response itself
ClientRetry == RetryInfo(2, 2, <<>>)

\* what llm_client.generate returns
ClientResponse(config) ==
    [retry |-> IF config.client_retry THEN Some(ClientRetry) ELSE None]

\* `response.setdefault("retry", {...})`: an existing key is kept
SetDefaultRetry(resp, info) ==
    IF resp.retry = None THEN [resp EXCEPT !.retry = Some(info)] ELSE resp

\* the LLMRequest built at the start of an attempt; chain lists the
\* middlewares whose before_request has replaced it since
LLMRequest(a) == [attempt |-> a, chain |-> <<>>]

\* the request middleware k returns from before_request
BeforeRequest(k, req) == [req EXCEPT !.chain = Append(@, k)]

\* after_response is given the request as built, before the chain
AfterRequestArgOriginal(last_request, req) == last_request

\* `middleware.after_response(request, response)`: `request` is the value
\* the before_request loop left, `last_request` is not used here
AfterRequestArg(last_request, req) == req

\* entry of mw_log
MiddlewareCall(a, op, k, req) ==
    [attempt |-> a, op |-> op, middleware |-> k, request |-> req]

\* only an exception of generate is caught by the handler of the attempt,
\* any other one leaves the retry loop
RaiseOnlyGenerateCaught(stage) ==
    /\ cur_error' = Some(Error(attempt, stage))
    /\ ex_pc' = IF stage = "generate" THEN "except" ELSE "exhausted"

\* the exception leaves the try block of the current attempt
RaiseInAttempt(stage) ==
    /\ cur_error' = Some(Error(attempt, stage))
    /\ ex_pc' = "except"

\* `while attempt < max_attempts:`
LoopGuard(a, max_attempts) == a < max_attempts

\* `if attempt >= max_attempts: ... break`
BreakGuard(a, max_attempts) == a >= max_attempts

\* a hook that raises ends the notification
NextHookUnlessRaised(n, k, raised) == IF raised THEN n + 1 ELSE k + 1

\* the loop of _notify_retry_exhausted goes on to the next middleware, the
\* hook's exception is logged and dropped
NextHook(n, k, raised) == k + 1

\* `attempt += 1`, the LLMRequest is built
ExecAttemptBegin ==
    /\ ex_pc = "loop"
    /\ LoopGuard(attempt, ex_cfg.max_attempts)
    /\ attempt' = attempt + 1
    /\ ex_request' = Some(LLMRequest(attempt + 1))
    /\ ex_pc' = "before"
    /\ mw_k' = 1
    /\ UNCHANGED <<notExecVars, ex_cfg, cur_error, last_error, attempt_history,
                   ex_result, response, error_retry, generate_log, hook_log,
                   mw_log>>

\* the while condition is false
ExecLoopExit ==
    /\ ex_pc = "loop"
    /\ ~LoopGuard(attempt, ex_cfg.max_attempts)
    /\ ex_pc' = "exhausted"
    /\ UNCHANGED <<notExecVars, ex_cfg, attempt, cur_error, last_error,
                   attempt_history, mw_k, ex_result, ex_request, response,
                   error_retry, generate_log, hook_log, mw_log>>

\* `request = middleware.before_request(request)` for middleware mw_k
ExecBeforeRequest ==
    /\ ex_pc = "before"
    /\ mw_k <= Len(ex_cfg.middlewares)
    /\ mw_log' = Append(mw_log, MiddlewareCall(attempt, "before_request", mw_k,
                                               ex_request[1]))
    /\ \E raises \in BOOLEAN :
           IF raises
           THEN RaiseInAttempt("before_request") /\ UNCHANGED <<mw_k, ex_request>>
           ELSE /\ mw_k' = mw_k + 1
                /\ ex_request' = Some(BeforeRequest(mw_k, ex_request[1]))
                /\ UNCHANGED <<cur_error, ex_pc>>
    /\ UNCHANGED <<notExecVars, ex_cfg, attempt, last_error, attempt_history,
                   ex_result, response, error_retry, generate_log, hook_log>>

\* `self.rate_limiter.acquire(...)` when a rate limiter is configured
ExecAcquire ==
    /\ ex_pc = "before"
    /\ mw_k > Len(ex_cfg.middlewares)
    /\ \E raises \in {FALSE, ex_cfg.rate_limiter} :
           IF raises
           THEN RaiseInAttempt("acquire")
           ELSE ex_pc' = "generate" /\ UNCHANGED cur_error
    /\ UNCHANGED <<notExecVars, ex_cfg, attempt, last_error, attempt_history,
                   mw_k, ex_result, ex_request, response, error_retry,
                   generate_log, hook_log, mw_log>>

\* `response = self.llm_client.generate(...)`
ExecGenerate ==
    /\ ex_pc = "generate"
    /\ \E raises \in BOOLEAN :
           /\ generate_log' = Append(generate_log,
                                     [attempt |-> attempt, ok |-> ~raises])
           /\ IF raises
              THEN RaiseInAttempt("generate") /\ UNCHANGED <<mw_k, response>>
              ELSE /\ ex_pc' = "after"
                   /\ mw_k' = Len(ex_cfg.middlewares)
                   /\ response' = Some(ClientResponse(ex_cfg))
                   /\ UNCHANGED cur_error
    /\ UNCHANGED <<notExecVars, ex_cfg, attempt, last_error, attempt_history,
                   ex_result, ex_request, error_retry, hook_log, mw_log>>

\* `response = middleware.after_response(request, response)`, reversed order
ExecAfterResponse ==
    /\ ex_pc = "after"
    /\ mw_k >= 1
    /\ mw_log' = Append(mw_log,
                        MiddlewareCall(attempt, "after_response", mw_k,
                                       AfterRequestArg(LLMRequest(attempt),
                                                       ex_request[1])))
    /\ \E raises \in BOOLEAN :
           IF raises
           THEN RaiseInAttempt("after_response") /\ UNCHANGED mw_k
           ELSE mw_k' = mw_k - 1 /\ UNCHANGED <<cur_error, ex_pc>>
    /\ UNCHANGED <<notExecVars, ex_cfg, attempt, last_error, attempt_history,
                   ex_result, ex_request, response, error_retry, generate_log,
                   hook_log>>

\* `self.cost_tracker.record(...)` when a cost tracker is configured
ExecCostRecord ==
    /\ ex_pc = "after"
    /\ mw_k = 0
    /\ \E raises \in {FALSE, ex_cfg.cost_tracker} :
           IF raises
           THEN RaiseInAttempt("cost_tracker")
           ELSE ex_pc' = "record" /\ UNCHANGED cur_error
    /\ UNCHANGED <<notExecVars, ex_cfg, attempt, last_error, attempt_history,
                   mw_k, ex_result, ex_request, response, error_retry,
                   generate_log, hook_log, mw_log>>

\* the success record is appended to attempt_history and the retry metadata
\* is added to the response; the dict refers to the attempt_history list
ExecRecordSuccess ==
    /\ ex_pc = "record"
    /\ attempt_history' = Append(attempt_history, AttemptRecord(attempt, "success"))
    /\ response' = Some(SetDefaultRetry(response[1],
                                        RetryInfo(attempt, ex_cfg.max_attempts,
                                                  attempt_history')))
    /\ ex_pc' = "usage"
    /\ UNCHANGED <<notExecVars, ex_cfg, attempt, cur_error, last_error, mw_k,
                   ex_result, ex_request, error_retry, generate_log, hook_log,
                   mw_log>>

\* `self.rate_limiter.update_usage(...)` when configured, then `return response`
ExecUpdateUsage ==
    /\ ex_pc = "usage"
    /\ \E raises \in {FALSE, ex_cfg.rate_limiter} :
           IF raises
           THEN RaiseInAttempt("update_usage") /\ UNCHANGED ex_result
           ELSE /\ ex_pc' = "returned"
                /\ ex_result' = Some([kind |-> "return", attempt |-> attempt])
                /\ UNCHANGED cur_error
    /\ UNCHANGED <<notExecVars, ex_cfg, attempt, last_error, attempt_history,
                   mw_k, ex_request, response, error_retry, generate_log,
                   hook_log, mw_log>>

\* `except Exception as exc:`
ExecExcept ==
    /\ ex_pc = "except"
    /\ last_error' = cur_error
    /\ attempt_history' = Append(attempt_history, AttemptRecord(attempt, "error"))
    /\ ex_pc' = IF BreakGuard(attempt, ex_cfg.max_attempts) THEN "exhausted"
                ELSE "loop"
    /\ UNCHANGED <<notExecVars, ex_cfg, attempt, cur_error, mw_k, ex_result,
                   ex_request, response, error_retry, generate_log, hook_log,
                   mw_log>>

\* after the loop: `assert last_error is not None`; without assertions
\* `raise None` is a TypeError.  Otherwise the _dmp_retry_* attributes are
\* set on the error (last_request is set whenever an attempt was made)
ExecExhausted ==
    /\ ex_pc = "exhausted"
    /\ IF last_error = None
       THEN /\ ex_pc' = "raised"
            /\ \E e \in {"AssertionError", "TypeError"} :
                   ex_result' = Some([kind |-> "raise", error |-> Some(Error(0, e))])
            /\ UNCHANGED <<mw_k, error_retry>>
       ELSE /\ ex_pc' = "notify"
            /\ mw_k' = 1
            /\ error_retry' = Some(RetryInfo(attempt, ex_cfg.max_attempts,
                                             attempt_history))
            /\ UNCHANGED ex_result
    /\ UNCHANGED <<notExecVars, ex_cfg, attempt, cur_error, last_error,
                   attempt_history, ex_request, response, generate_log, hook_log,
                   mw_log>>

\* one turn of `for middleware in self.middlewares:` in _notify_retry_exhausted
ExecNotifyHook ==
    /\ ex_pc = "notify"
    /\ mw_k <= Len(ex_cfg.middlewares)
    /\ IF ex_cfg.middlewares[mw_k].hook
       THEN \E raises \in BOOLEAN :
                /\ hook_log' = Append(hook_log, [middleware |-> mw_k,
                                                 error |-> last_error,
                                                 raised |-> raises])
                /\ mw_k' = NextHook(Len(ex_cfg.middlewares), mw_k, raises)
       ELSE /\ mw_k' = mw_k + 1
            /\ UNCHANGED hook_log
    /\ UNCHANGED <<notExecVars, ex_cfg, ex_pc, attempt, cur_error, last_error,
                   attempt_history, ex_result, ex_request, response, error_retry,
                   generate_log, mw_log>>

\* `raise last_error`
ExecRaise ==
    /\ ex_pc = "notify"
    /\ mw_k > Len(ex_cfg.middlewares)
    /\ ex_pc' = "raised"
    /\ ex_result' = Some([kind |-> "raise", error |-> last_error])
    /\ UNCHANGED <<notExecVars, ex_cfg, attempt, cur_error, last_error,
                   attempt_history, mw_k, ex_request, response, error_retry,
                   generate_log, hook_log, mw_log>>

\* the locals of execute before its loop
ExecEntered ==
    /\ ex_pc = "loop"
    /\ attempt = 0
    /\ cur_error = None
    /\ last_error = None
    /\ attempt_history = <<>>
    /\ mw_k = 0
    /\ ex_result = None
    /\ ex_request = None
    /\ response = None
    /\ error_retry = None
    /\ generate_log = <<>>
    /\ hook_log = <<>>
    /\ mw_log = <<>>

\* execute has been called on an executor of any configuration
InitExec ==
    /\ SuiteUnused
    /\ MergeUnused
    /\ GateUnused
    /\ BuildUnused
    /\ RunnerUnused
    /\ CoordUnused
    /\ PipeUnused
    /\ CycleUnused
    /\ ex_cfg \in ExecConfigs
    /\ ExecEntered

NextExec ==
    \/ ExecAttemptBegin
    \/ ExecLoopExit
    \/ ExecBeforeRequest
    \/ ExecAcquire
    \/ ExecGenerate
    \/ ExecAfterResponse
    \/ ExecCostRecord
    \/ ExecRecordSuccess
    \/ ExecUpdateUsage
    \/ ExecExcept
    \/ ExecExhausted
    \/ ExecNotifyHook
    \/ ExecRaise

SpecExec == InitExec /\ [][NextExec]_vars

\* the middlewares that define on_retry_exhausted, in list order
HookIndexes == SelectSeq([i \in 1..Len(ex_cfg.middlewares) |-> i],
                         LAMBDA i : ex_cfg.middlewares[i].hook)

\* the attempts of which some call raised
FailedAttempts == {attempt_history[i].attempt :
                       i \in {n \in 1..Len(attempt_history) :
                                  attempt_history[n].status = "error"}}

\* C3: for max_attempts >= 1, execute calls llm.generate at most max_attempts
\* times and at most once per attempt; it returns in the first attempt that
\* runs through, every earlier attempt having failed; if all attempts fail it
\* raises the error of attempt max_attempts, and every on_retry_exhausted hook
\* has then been invoked once, in list order, with that error, whether or not
\* hooks raised.
C3_BoundedRetry ==
    ex_cfg.max_attempts >= 1 =>
        /\ Len(generate_log) <= ex_cfg.max_attempts
        /\ \A i, j \in 1..Len(generate_log) :
               i < j => generate_log[i].attempt < generate_log[j].attempt
        /\ ex_pc = "returned" =>
               /\ ex_result = Some([kind |-> "return", attempt |-> attempt])
               /\ generate_log[Len(generate_log)] = [attempt |-> attempt, ok |-> TRUE]
               /\ FailedAttempts = 1..(attempt - 1)
        /\ ex_pc = "raised" =>
               /\ attempt = ex_cfg.max_attempts
               /\ FailedAttempts = 1..ex_cfg.max_attempts
               /\ ex_result = Some([kind |-> "raise", error |-> cur_error])
               /\ cur_error[1].attempt = ex_cfg.max_attempts
               /\ Len(hook_log) = Len(HookIndexes)
               /\ \A i \in 1..Len(hook_log) :
                      /\ hook_log[i].middleware = HookIndexes[i]
                      /\ hook_log[i].error = cur_error

\* all three attempts failed, the first of two hooks raised, the error of
\* the third attempt was raised
C3_Witness ==
    /\ ex_pc = "raised"
    /\ ex_cfg.max_attempts = 3
    /\ Len(generate_log) = 3
    /\ Len(hook_log) = 2
    /\ hook_log[1].raised
    /\ ex_result[1].error[1].attempt = 3

\* the calls of one middleware method made in attempt a, in call order
CallsIn(a, op) == SelectSeq(mw_log, LAMBDA c : c.attempt = a /\ c.op = op)

\* the request after the first k middlewares have replaced it in attempt a
Chained(a, k) == [attempt |-> a, chain |-> [i \in 1..k |-> i]]

GenerateCalled(a) == \E i \in 1..Len(generate_log) : generate_log[i].attempt = a

GenerateOk(a) ==
    \E i \in 1..Len(generate_log) : generate_log[i] = [attempt |-> a, ok |-> TRUE]

\* the try block of attempt a has been left
AttemptOver(a) ==
    \/ a < attempt
    \/ a = attempt /\ ex_pc \in {"usage", "except", "loop", "exhausted",
                                  "notify", "returned", "raised"}

RetryConsistent(info, status) ==
    /\ Len(info.history) = info.attempts
    /\ \A k \in 1..Len(info.history) : info.history[k].attempt = k
    /\ info.history # <<>>
    /\ info.history[Len(info.history)].status = status

\* C16 (as claimed): the retry info of every response execute returns and of
\* every error it raises on exhaustion has len(history) = attempts, entry k
\* being attempt k, the last entry being a success for a response and an
\* error for an exception, also when the client's response carries a retry
\* field of its own.
C16_HistoryMatchesAttempts ==
    /\ ex_pc = "returned" =>
           /\ response[1].retry # None
           /\ RetryConsistent(response[1].retry[1], "success")
    /\ (ex_pc = "raised" /\ ex_cfg.max_attempts >= 1) =>
           /\ error_retry # None
           /\ RetryConsistent(error_retry[1], "error")

\* the calls of the try block that the claim is about, and llm.generate
RetriedStages ==
    {"generate", "before_request", "acquire", "after_response", "cost_tracker"}

\* C25: an exception of a middleware, of rate_limiter.acquire or of
\* cost_tracker.record is handled as one of llm.generate is: once the handler
\* has run, attempt_history has an error entry for the attempt; below
\* max_attempts the loop goes on with the next attempt, at max_attempts the
\* error is the one raised; and the attempt after a cost tracker failure
\* calls generate again although generate had succeeded.
C25_NonLLMErrorsRetried ==
    (cur_error # None /\ ex_pc # "except") =>
        LET e == cur_error[1]
        IN e.stage \in RetriedStages =>
               /\ e.attempt \in FailedAttempts
               /\ e.attempt < ex_cfg.max_attempts =>
                      /\ attempt \in {e.attempt, e.attempt + 1}
                      /\ attempt = e.attempt <=> ex_pc = "loop"
                      /\ attempt = e.attempt + 1 =>
                             ex_pc \in {"before", "generate", "after", "record",
                                        "usage", "returned"}
               /\ e.attempt >= ex_cfg.max_attempts =>
                      /\ ex_pc \in {"exhausted", "notify", "raised"}
                      /\ last_error = cur_error
                      /\ ex_pc = "raised" =>
                             ex_result = Some([kind |-> "raise", error |-> cur_error])
               /\ e.stage \in {"after_response", "cost_tracker"} =>
                      /\ GenerateOk(e.attempt)
                      /\ (attempt > e.attempt
                          /\ ex_pc \in {"after", "record", "usage", "returned"}) =>
                             GenerateCalled(attempt)

\* generate succeeded in attempt 1, the cost tracker raised, and attempt 2
\* called generate again and returned
C25_Witness ==
    /\ ex_pc = "returned"
    /\ cur_error = Some(Error(1, "cost_tracker"))
    /\ generate_log = <<[attempt |-> 1, ok |-> TRUE], [attempt |-> 2, ok |-> TRUE]>>
    /\ attempt_history = <<AttemptRecord(1, "error"), AttemptRecord(2, "success")>>

(***************************************************************************)
(* ArtifactPipeline: __init__ (_prepare_binding, _resolve_order) and       *)
(* execute, with the ArtifactStore and the security levels.                *)
(*                                                                         *)
(* A token is the record of its leading "@", its type prefix and the rest  *)
(* of its text: "@a" is [at TRUE, prefix "", rest "a"], "data/x" is        *)
(* [at FALSE, prefix "data/", rest "x"].  A binding's id is its position   *)
(* in the list given to __init__ (the runner builds "<name>:<index>").     *)
(***************************************************************************)
SECURITY_LEVELS ==
    <<"unofficial", "official", "official-sensitive", "secret", "top-secret">>

\* SECURITY_LEVELS.index(level)
LevelIndex(level) == CHOOSE i \in 1..Len(SECURITY_LEVELS) : SECURITY_LEVELS[i] = level

\* str(level).strip().lower(), on the spellings the sinks below use
StripLower(text) ==
    CASE text = " Secret " -> "secret"
      [] text = "  " -> ""
      [] OTHER -> text

\* normalize_security_level: None and blank text give the lowest level
NormalizeSecurityLevel(level) ==
    IF level = None \/ StripLower(level[1]) = "" THEN SECURITY_LEVELS[1]
    ELSE StripLower(level[1])

\* a check that lets every level through
AllowAnyLevel(data_level, clearance_level) == TRUE

\* is_security_level_allowed
IsSecurityLevelAllowed(data_level, clearance_level) ==
    LevelIndex(NormalizeSecurityLevel(clearance_level))
        >= LevelIndex(NormalizeSecurityLevel(data_level))

VALID_PREFIXES == {"file/", "data/"}

\* validate_artifact_type does not raise
ValidArtifactType(type) == type.prefix \in VALID_PREFIXES /\ type.rest # ""

Type(prefix, rest) == [prefix |-> prefix, rest |-> rest]

AliasToken(alias) == [at |-> TRUE, prefix |-> "", rest |-> alias]

TypeToken(type) == [at |-> FALSE, prefix |-> type.prefix, rest |-> type.rest]

TokenType(token) == Type(token.prefix, token.rest)

\* `not token`
TokenEmpty(token) == ~token.at /\ token.prefix = "" /\ token.rest = ""

\* ArtifactDescriptor
Descriptor(name, type, alias, level) ==
    [name |-> name, type |-> type, alias |-> alias, security_level |-> level]

\* ArtifactRequest
Request(token, mode) == [token |-> token, mode |-> mode]

\* `descriptor.alias or descriptor.name`
DescriptorKey(d) == IF d.alias # None /\ d.alias[1] # "" THEN d.alias[1] ELSE d.name

TypeX == Type("data/", "x")

TypeY == Type("data/", "y")

\* the sinks a pipeline is built from: security level, declared produces and
\* consumes
SinkKinds ==
    { [security_level |-> None, produces |-> <<>>, consumes |-> <<>>],
      [security_level |-> None,
       produces |-> <<Descriptor("a", TypeX, None, None)>>, consumes |-> <<>>],
      [security_level |-> Some("secret"),
       produces |-> <<Descriptor("b", TypeY, Some("a"), None)>>, consumes |-> <<>>],
      [security_level |-> Some("official"), produces |-> <<>>,
       consumes |-> <<Request(AliasToken("a"), "single")>>],
      [security_level |-> Some("official"), produces |-> <<>>,
       consumes |-> <<Request(TypeToken(TypeX), "all")>>],
      [security_level |-> Some("secret"),
       produces |-> <<Descriptor("c", TypeY, None, Some(" Secret "))>>,
       consumes |-> <<Request(TypeToken(TypeX), "single")>>],
      [security_level |-> Some("secret"),
       produces |-> <<Descriptor("d", TypeX, None, None)>>,
       consumes |-> <<Request(TypeToken(TypeY), "single")>>],
      [security_level |-> None,
       produces |-> <<Descriptor("e", TypeX, None, Some("secret"))>>,
       consumes |-> <<>>] }

\* the security level a sink gives the artifact it returns
ArtifactLevels == {None, Some(" Secret ")}

\* SinkBinding as _build_sink_bindings constructs it for the sink at `index`;
\* artifact_config keeps the "produces" entries as they were configured
SinkBinding(sink, index) ==
    [id |-> index + 1, original_index |-> index,
     security_level |-> sink.security_level,
     artifact_config |-> sink.produces,
     produces |-> sink.produces, consumes |-> sink.consumes]

\* _prepare_binding: the levels of the binding and of its descriptors are
\* normalized
PrepareBinding(binding) ==
    [binding EXCEPT
        !.security_level = Some(NormalizeSecurityLevel(binding.security_level)),
        !.produces = [k \in 1..Len(binding.produces) |->
            [binding.produces[k] EXCEPT
                !.security_level =
                    Some(NormalizeSecurityLevel(binding.produces[k].security_level))]]]

BindingIds == 1..Len(bindings)

\* ArtifactPipeline.__init__, first line
PipePrepareBindings ==
    /\ pl_pc = "init"
    /\ bindings' = [i \in BindingIds |-> PrepareBinding(bindings[i])]
    /\ pl_pc' = "graph"
    /\ UNCHANGED <<notPipeVars, register_log, dependencies, dependents, ready, ordered, exec_k,
                   consumed, store, pl_error, sink_log, handoffs>>

\* the declarations of bindings i.. in the order _resolve_order scans them
RECURSIVE Declarations(_, _)
Declarations(bs, i) ==
    IF i > Len(bs) THEN <<>>
    ELSE [k \in 1..Len(bs[i].produces) |->
              [binding |-> i, key |-> DescriptorKey(bs[i].produces[k]),
               type |-> bs[i].produces[k].type]]
         \o Declarations(bs, i + 1)

\* producers_by_name.get(key): the first binding that declared the key
ProducerByName(bs, key) ==
    LET named == SelectSeq(Declarations(bs, 1), LAMBDA d : d.key = key /\ key # "")
    IN IF named = <<>> THEN <<>> ELSE <<named[1].binding>>

\* producers_by_type.get(type, [])
ProducersByType(bs, type) ==
    LET typed == SelectSeq(Declarations(bs, 1), LAMBDA d : d.type = type)
    IN [k \in 1..Len(typed) |-> typed[k].binding]

\* the producers _resolve_order matches one request with
MatchedIds(bs, request) ==
    IF TokenEmpty(request.token) THEN <<>>
    ELSE IF request.token.at THEN ProducerByName(bs, request.token.rest)
    ELSE IF ValidArtifactType(TokenType(request.token))
         THEN ProducersByType(bs, TokenType(request.token))
    ELSE <<>>

\* every producer matched with a request of binding i
MatchedBy(bs, i) ==
    UNION {Range(MatchedIds(bs, bs[i].consumes[k])) : k \in 1..Len(bs[i].consumes)}

\* _enforce_dependency_security does not raise
DependencyAllowed(consumer, producer) ==
    \/ consumer.security_level = None
    \/ IsSecurityLevelAllowed(producer.security_level, consumer.security_level)

RECURSIVE InsertByOriginalIndex(_, _, _)
InsertByOriginalIndex(bs, sorted, id) ==
    IF sorted = <<>> THEN <<id>>
    ELSE IF bs[id].original_index < bs[Head(sorted)].original_index
         THEN <<id>> \o sorted
    ELSE <<Head(sorted)>> \o InsertByOriginalIndex(bs, Tail(sorted), id)

\* the deque is left in the order of the appends
KeepAppendOrder(bs, ids) == ids

\* sorted(list(ready), key=lambda b: b.original_index)
RECURSIVE SortByOriginalIndex(_, _)
SortByOriginalIndex(bs, ids) ==
    IF ids = <<>> THEN <<>>
    ELSE InsertByOriginalIndex(bs,
             SortByOriginalIndex(bs, SubSeq(ids, 1, Len(ids) - 1)), ids[Len(ids)])

\* _resolve_order up to the first `ready`
PipeBuildGraph ==
    /\ pl_pc = "graph"
    /\ IF bindings = <<>>
       THEN /\ pl_pc' = "resolve"
            /\ exec_k' = 1
            /\ UNCHANGED <<dependencies, dependents, ready, pl_error>>
       ELSE IF \E i \in BindingIds : \E j \in MatchedBy(bindings, i) :
                   ~DependencyAllowed(bindings[i], bindings[j])
       THEN /\ pl_error' = Some("PermissionError")
            /\ pl_pc' = "failed"
            /\ UNCHANGED <<dependencies, dependents, ready, exec_k>>
       ELSE LET deps == [i \in BindingIds |-> MatchedBy(bindings, i) \ {i}]
            IN /\ dependencies' = deps
               /\ dependents' = [j \in BindingIds |->
                                     {i \in BindingIds : j \in deps[i]}]
               /\ ready' = SortByOriginalIndex(bindings,
                               SelectSeq([i \in BindingIds |-> i],
                                         LAMBDA i : deps[i] = {}))
               /\ pl_pc' = "kahn"
               /\ UNCHANGED <<pl_error, exec_k>>
    /\ UNCHANGED <<notPipeVars, register_log, bindings, ordered, consumed, store, sink_log,
                   handoffs>>

\* the orders in which a set can be iterated
Orders(S) == {f \in [1..Cardinality(S) -> S] : \A a, b \in DOMAIN f : a # b => f[a] # f[b]}

\* `for dependent_id in dependents[current.id]:` from position k of the
\* iteration order on
RECURSIVE Release(_, _, _, _, _, _)
Release(bs, current, order, k, deps, rdy) ==
    IF k > Len(order) THEN [dependencies |-> deps, ready |-> rdy]
    ELSE IF current \notin deps[order[k]]
         THEN Release(bs, current, order, k + 1, deps, rdy)
    ELSE LET left == [deps EXCEPT ![order[k]] = @ \ {current}]
         IN IF left[order[k]] # {}
            THEN Release(bs, current, order, k + 1, left, rdy)
            ELSE Release(bs, current, order, k + 1, left,
                         SortByOriginalIndex(bs, Append(rdy, order[k])))

\* one turn of `while ready:`
PipeKahnStep ==
    /\ pl_pc = "kahn"
    /\ ready # <<>>
    /\ ordered' = Append(ordered, Head(ready))
    /\ \E order \in Orders(dependents[Head(ready)]) :
           LET r == Release(bindings, Head(ready), order, 1, dependencies, Tail(ready))
           IN /\ dependencies' = r.dependencies
              /\ ready' = r.ready
    /\ UNCHANGED <<notPipeVars, register_log, bindings, pl_pc, dependents, exec_k, consumed,
                   store, pl_error, sink_log, handoffs>>

\* an order is returned whatever its length
OrderAlwaysComplete(order, bs) == TRUE

\* `len(ordered) != len(bindings)` is false
OrderComplete(order, bs) == Len(order) = Len(bs)

\* the loop has ended: `if len(ordered) != len(bindings): raise ValueError`
PipeOrderResolved ==
    /\ pl_pc = "kahn"
    /\ ready = <<>>
    /\ IF ~OrderComplete(ordered, bindings)
       THEN /\ pl_error' = Some("ValueError")
            /\ pl_pc' = "failed"
            /\ UNCHANGED exec_k
       ELSE /\ pl_pc' = "resolve"
            /\ exec_k' = 1
            /\ UNCHANGED pl_error
    /\ UNCHANGED <<notPipeVars, register_log, bindings, dependencies, dependents, ready,
                   ordered, consumed, store, sink_log, handoffs>>

\* dict[key] = value
Put(f, key, value) == [x \in DOMAIN f \cup {key} |-> IF x = key THEN value ELSE f[x]]

\* ArtifactStore.get_by_alias
GetByAlias(st, alias) ==
    IF alias \in DOMAIN st.by_alias THEN Some(st.by_alias[alias]) ELSE None

\* ArtifactStore.get_by_type
GetByType(st, type) == IF type \in DOMAIN st.by_type THEN st.by_type[type] ELSE <<>>

\* requests[k..] of ArtifactStore.resolve_requests, `resolved` so far
RECURSIVE ResolveRequests(_, _, _, _)
ResolveRequests(st, requests, k, resolved) ==
    IF k > Len(requests) THEN resolved
    ELSE LET token == requests[k].token
             found == IF token.at THEN GetByAlias(st, token.rest)
                      ELSE GetByType(st, TokenType(token))
             selected == IF requests[k].mode = "single" /\ found # <<>>
                         THEN SubSeq(found, 1, 1) ELSE found
             bare == [at |-> FALSE, prefix |-> "", rest |-> token.rest]
         IN IF TokenEmpty(token) \/ (~token.at /\ ~ValidArtifactType(TokenType(token)))
            THEN ResolveRequests(st, requests, k + 1, resolved)
            ELSE ResolveRequests(st, requests, k + 1,
                     IF token.at THEN Put(Put(resolved, token, selected), bare, selected)
                     ELSE Put(resolved, token, selected))

\* the artifacts in the lists of a `consumed` map
ArtifactsOf(c) == UNION {Range(c[key]) : key \in DOMAIN c}

\* a Python `or` chain over levels: the first that is neither None nor ""
FirstLevel(levels) ==
    LET truthy == SelectSeq(levels, LAMBDA l : l # None /\ l[1] # "")
    IN IF truthy = <<>> THEN levels[Len(levels)] ELSE truthy[1]

\* self._by_id[artifact_id] = artifact, in dict order
PutById(by_id, artifact) ==
    IF \E n \in 1..Len(by_id) : by_id[n].id = artifact.id
    THEN [n \in 1..Len(by_id) |->
              IF by_id[n].id = artifact.id THEN artifact ELSE by_id[n]]
    ELSE Append(by_id, artifact)

\* the artifact as ArtifactStore.register leaves it: id, produced_by and
\* security_level are assigned
RegisteredArtifact(binding, descriptor, artifact) ==
    [id |-> IF artifact.id # None THEN artifact.id[1]
            ELSE [binding |-> binding.id, name |-> descriptor.name],
     produced_by |-> binding.id,
     security_level |-> Some(NormalizeSecurityLevel(
         FirstLevel(<<artifact.security_level, descriptor.security_level,
                      binding.security_level>>)))]

\* ArtifactStore.register
Register(st, binding, descriptor, artifact) ==
    LET registered == RegisteredArtifact(binding, descriptor, artifact)
        alias_key == DescriptorKey(descriptor)
    IN [by_id |-> PutById(st.by_id, registered),
        by_alias |-> IF alias_key # "" THEN Put(st.by_alias, alias_key, registered)
                     ELSE st.by_alias,
        by_type |-> Put(st.by_type, descriptor.type,
                        Append(GetByType(st, descriptor.type), registered))]

\* an id a sink gives the artifact it returns
SinkArtifactId == [binding |-> 0, name |-> "report"]

\* the artifacts a sink's collect_artifacts may return
Candidates == [id : {None, Some(SinkArtifactId)}, security_level : ArtifactLevels]

\* the keys of the map collect_artifacts returns
ProducedKeys(binding) ==
    {binding.produces[k].name : k \in 1..Len(binding.produces)}
    \cup {binding.produces[k].alias[1] :
              k \in {n \in 1..Len(binding.produces) : binding.produces[n].alias # None}}

\* `for descriptor in binding.produces:` of execute, from descriptor k on;
\* produced[key] is None when the map has no such key
RECURSIVE RegisterProduced(_, _, _, _)
RegisterProduced(st, binding, k, produced) ==
    IF k > Len(binding.produces) THEN st
    ELSE LET descriptor == binding.produces[k]
             by_name == produced[descriptor.name]
             candidate == IF by_name = None /\ descriptor.alias # None
                              /\ descriptor.alias[1] # ""
                          THEN produced[descriptor.alias[1]] ELSE by_name
         IN RegisterProduced(
                IF candidate # None THEN Register(st, binding, descriptor, candidate[1])
                ELSE st,
                binding, k + 1, produced)

\* the register calls RegisterProduced makes, from descriptor k on
RECURSIVE Registrations(_, _, _)
Registrations(binding, k, produced) ==
    IF k > Len(binding.produces) THEN <<>>
    ELSE LET descriptor == binding.produces[k]
             by_name == produced[descriptor.name]
             candidate == IF by_name = None /\ descriptor.alias # None
                              /\ descriptor.alias[1] # ""
                          THEN produced[descriptor.alias[1]] ELSE by_name
         IN (IF candidate # None
             THEN <<[binding |-> binding.id, descriptor |-> k,
                     artifact |-> candidate[1],
                     registered |-> RegisteredArtifact(binding, descriptor,
                                                       candidate[1])]>>
             ELSE <<>>)
            \o Registrations(binding, k + 1, produced)

\* the binding execute is at
Current == bindings[ordered[exec_k]]

SinkCall(op, artifacts) == [binding |-> Current.id, op |-> op, artifacts |-> artifacts]

\* execute: resolve_requests and the clearance check for the next binding
PipeResolve ==
    /\ pl_pc = "resolve"
    /\ exec_k <= Len(ordered)
    /\ LET c == ResolveRequests(store, Current.consumes, 1, <<>>)
           clearance == Current.security_level
       IN /\ handoffs' = Append(handoffs, [binding |-> Current.id,
                                           artifacts |-> ArtifactsOf(c)])
          /\ IF /\ clearance # None /\ clearance[1] # ""
                /\ \E artifact \in ArtifactsOf(c) :
                       ~IsSecurityLevelAllowed(artifact.security_level, clearance)
             THEN /\ pl_error' = Some("PermissionError")
                  /\ pl_pc' = "failed"
                  /\ UNCHANGED consumed
             ELSE /\ consumed' = c
                  /\ pl_pc' = "prepare"
                  /\ UNCHANGED pl_error
    /\ UNCHANGED <<notPipeVars, register_log, bindings, dependencies, dependents, ready,
                   ordered, exec_k, store, sink_log>>

\* `prepare(consumed)`
PipePrepareArtifacts ==
    /\ pl_pc = "prepare"
    /\ sink_log' = Append(sink_log, SinkCall("prepare_artifacts", ArtifactsOf(consumed)))
    /\ pl_pc' = "write"
    /\ UNCHANGED <<notPipeVars, register_log, bindings, dependencies, dependents, ready,
                   ordered, exec_k, consumed, store, pl_error, handoffs>>

\* `binding.sink.write(payload, metadata=metadata)`
PipeWrite ==
    /\ pl_pc = "write"
    /\ sink_log' = Append(sink_log, SinkCall("write", {}))
    /\ pl_pc' = "collect"
    /\ UNCHANGED <<notPipeVars, register_log, bindings, dependencies, dependents, ready,
                   ordered, exec_k, consumed, store, pl_error, handoffs>>

\* collect_artifacts and the registration of what it returned
PipeCollect ==
    /\ pl_pc = "collect"
    /\ \E produced \in [ProducedKeys(Current) -> {None} \cup {Some(c) : c \in Candidates}] :
           /\ store' = RegisterProduced(store, Current, 1, produced)
           /\ register_log' = register_log \o Registrations(Current, 1, produced)
    /\ pl_pc' = "finalize"
    /\ UNCHANGED <<notPipeVars, bindings, dependencies, dependents, ready,
                   ordered, exec_k, consumed, pl_error, sink_log, handoffs>>

\* `finalize(dict(store.items()), metadata=metadata)`, on to the next binding
PipeFinalize ==
    /\ pl_pc = "finalize"
    /\ sink_log' = Append(sink_log, SinkCall("finalize", Range(store.by_id)))
    /\ exec_k' = exec_k + 1
    /\ pl_pc' = "resolve"
    /\ UNCHANGED <<notPipeVars, register_log, bindings, dependencies, dependents, ready,
                   ordered, consumed, store, pl_error, handoffs>>

\* `return store`
PipeReturn ==
    /\ pl_pc = "resolve"
    /\ exec_k > Len(ordered)
    /\ pl_pc' = "done"
    /\ UNCHANGED <<notPipeVars, register_log, bindings, dependencies, dependents, ready,
                   ordered, exec_k, consumed, store, pl_error, sink_log, handoffs>>

SinkLists == UNION {[1..n -> SinkKinds] : n \in 0..MaxBindings}

\* ArtifactPipeline(bindings) is about to be constructed and executed
InitPipe ==
    /\ SuiteUnused
    /\ MergeUnused
    /\ GateUnused
    /\ BuildUnused
    /\ RunnerUnused
    /\ CoordUnused
    /\ ExecUnused
    /\ CycleUnused
    /\ \E sinks \in SinkLists :
           bindings = [i \in 1..Len(sinks) |-> SinkBinding(sinks[i], i - 1)]
    /\ pl_pc = "init"
    /\ dependencies = <<>>
    /\ dependents = <<>>
    /\ ready = <<>>
    /\ ordered = <<>>
    /\ exec_k = 0
    /\ consumed = <<>>
    /\ store = EmptyStore
    /\ pl_error = None
    /\ sink_log = <<>>
    /\ handoffs = <<>>
    /\ register_log = <<>>

NextPipe ==
    \/ PipePrepareBindings
    \/ PipeBuildGraph
    \/ PipeKahnStep
    \/ PipeOrderResolved
    \/ PipeResolve
    \/ PipePrepareArtifacts
    \/ PipeWrite
    \/ PipeCollect
    \/ PipeFinalize
    \/ PipeReturn

SpecPipe == InitPipe /\ [][NextPipe]_vars

\* binding i declares a consume that binding j, another binding, produces
\* for: by type, or by alias/name as the first binding to declare the key
ConsumesFrom(i, j) ==
    /\ i # j
    /\ \E k \in 1..Len(bindings[i].consumes) :
           LET token == bindings[i].consumes[k].token
               declares(b, d) ==
                   IF token.at THEN DescriptorKey(bindings[b].produces[d]) = token.rest
                   ELSE bindings[b].produces[d].type = TokenType(token)
               producers == {b \in BindingIds :
                                \E d \in 1..Len(bindings[b].produces) : declares(b, d)}
           IN /\ j \in producers
              /\ token.at => \A b \in producers : j <= b

\* position of binding i in the execution order
Position(i) == CHOOSE n \in 1..Len(ordered) : ordered[n] = i

OrderResolved == pl_pc \in {"resolve", "prepare", "write", "collect", "finalize", "done"}

\* C9: the order _resolve_order returns holds every binding once, every
\* producer precedes each binding that consumes from it, and a binding is
\* never executed while a binding of smaller original_index is ready (all its
\* producers already executed).
C9_LinearExtension ==
    OrderResolved =>
        /\ Len(ordered) = Len(bindings)
        /\ \A i \in BindingIds : \E n \in 1..Len(ordered) : ordered[n] = i
        /\ \A i, j \in BindingIds : ConsumesFrom(i, j) => Position(j) < Position(i)
        /\ \A n, m \in 1..Len(ordered) :
               (/\ n < m
                /\ \A j \in BindingIds :
                       ConsumesFrom(ordered[m], j) => Position(j) < n)
               => bindings[ordered[n]].original_index
                      < bindings[ordered[m]].original_index

\* the first binding consumes from the second, which is released while the
\* third is waiting in the ready queue
C9_Witness ==
    /\ pl_pc = "done"
    /\ ordered = <<2, 1, 3>>
    /\ ConsumesFrom(1, 2)

\* some artifact resolved for the binding lies above the binding's clearance
AboveClearance(h) ==
    \E artifact \in h.artifacts :
        LevelIndex(artifact.security_level[1])
            > LevelIndex(bindings[h.binding].security_level[1])

\* C10: prepare_artifacts and write of a binding are only invoked when no
\* artifact resolved for its consumes lies above its clearance; otherwise the
\* pipeline has raised PermissionError, neither method of that binding was
\* invoked and no later binding was reached.
C10_ClearanceAtHandoff ==
    \A n \in 1..Len(handoffs) :
        IF AboveClearance(handoffs[n])
        THEN /\ pl_error = Some("PermissionError")
             /\ pl_pc = "failed"
             /\ n = Len(handoffs)
             /\ \A e \in 1..Len(sink_log) : sink_log[e].binding # handoffs[n].binding
        ELSE \A e \in 1..Len(sink_log) :
                 (sink_log[e].binding = handoffs[n].binding
                      /\ sink_log[e].op = "prepare_artifacts")
                 => sink_log[e].artifacts = handoffs[n].artifacts

\* a producer ran, its artifact was above the clearance of the consumer that
\* came next, and a third binding was never reached
C10_Witness ==
    /\ pl_error = Some("PermissionError")
    /\ Len(handoffs) = 2
    /\ AboveClearance(handoffs[2])
    /\ Len(ordered) = 3
    /\ \E e \in 1..Len(sink_log) : sink_log[e].op = "write"

\* binding j declares a descriptor that a consume of binding i asks for
\* (ConsumesFrom) at a declared level above the clearance of binding i
DeclaredAbove(i, j) ==
    /\ ConsumesFrom(i, j)
    /\ \E k \in 1..Len(bindings[i].consumes), d \in 1..Len(bindings[j].produces) :
           LET token == bindings[i].consumes[k].token
               descriptor == bindings[j].produces[d]
           IN /\ IF token.at THEN DescriptorKey(descriptor) = token.rest
                 ELSE descriptor.type = TokenType(token)
              /\ LevelIndex(descriptor.security_level[1])
                     > LevelIndex(bindings[i].security_level[1])

\* __init__ has returned or raised
Constructed == pl_pc \notin {"init", "graph", "kahn"}

\* C11 (as claimed): when a producer declares an artifact at a level above
\* the clearance of a binding that consumes it, the construction of the
\* pipeline raises PermissionError and no sink method is ever invoked.
C11_ViolationAtResolution ==
    (pl_pc \notin {"init", "graph"}
        /\ \E i, j \in BindingIds : DeclaredAbove(i, j))
    => /\ pl_pc = "failed"
       /\ pl_error = Some("PermissionError")
       /\ sink_log = <<>>

\* some bindings depend on each other in a circle (self-edges are ignored)
HasCycle ==
    \E S \in SUBSET BindingIds :
        /\ S # {}
        /\ \A i \in S : \E j \in S : ConsumesFrom(i, j)

\* the level of producer binding j lies above the clearance of a consumer i
BindingAbove(i, j) ==
    /\ ConsumesFrom(i, j)
    /\ LevelIndex(bindings[j].security_level[1])
           > LevelIndex(bindings[i].security_level[1])

\* C12 (as claimed): bindings whose declarations form a cycle make the
\* construction raise the ordering error, and no sink's write is invoked.
C12_CycleRaisesOrderingError ==
    (Constructed /\ HasCycle) =>
        /\ pl_pc = "failed"
        /\ pl_error = Some("ValueError")
        /\ sink_log = <<>>

\* C12 (amended): bindings whose declarations form a cycle make the
\* construction fail and no sink method is invoked; the error is the ordering
\* error unless a producer binding's level lies above a consumer's clearance,
\* which raises PermissionError first.
C12_CycleIsFatal ==
    (Constructed /\ HasCycle) =>
        /\ pl_pc = "failed"
        /\ sink_log = <<>>
        /\ IF \E i, j \in BindingIds : BindingAbove(i, j)
           THEN pl_error = Some("PermissionError")
           ELSE pl_error = Some("ValueError")

\* two bindings of equal level consume from each other, a third is free
C12_Witness ==
    /\ pl_pc = "failed"
    /\ pl_error = Some("ValueError")
    /\ Len(bindings) = 3
    /\ ConsumesFrom(1, 2)
    /\ ConsumesFrom(2, 1)
    /\ Len(ordered) = 1

\* a consume of binding i names a token no binding declares a producer for
Unresolved(i) ==
    \E k \in 1..Len(bindings[i].consumes) :
        LET token == bindings[i].consumes[k].token
        IN /\ ~TokenEmpty(token)
           /\ \A j \in BindingIds : \A d \in 1..Len(bindings[j].produces) :
                  IF token.at THEN DescriptorKey(bindings[j].produces[d]) # token.rest
                  ELSE bindings[j].produces[d].type # TokenType(token)

\* C13 (as claimed): a consume for which no binding declares a producer makes
\* the construction fail (with the ordering error, unless a clearance
\* violation was raised before it); no binding is executed with an empty
\* handoff for it.
C13_UnresolvedIsFatal ==
    (Constructed /\ \E i \in BindingIds : Unresolved(i)) =>
        /\ pl_pc = "failed"
        /\ pl_error \in {Some("ValueError"), Some("PermissionError")}
        /\ handoffs = <<>>

\* binding a has registered an artifact in the store
Registered(a) == \E n \in 1..Len(store.by_id) : store.by_id[n].produced_by = a

\* the bindings other than b that declare a descriptor for the token and
\* have registered an artifact
ProducersFor(b, token) ==
    {a \in BindingIds \ {b} :
        /\ Registered(a)
        /\ \E d \in 1..Len(bindings[a].produces) :
               IF token.at THEN DescriptorKey(bindings[a].produces[d]) = token.rest
               ELSE bindings[a].produces[d].type = TokenType(token)}

\* C14 (as claimed): when B consumes a type or alias produced by A and A
\* registered its artifact, the map passed to B's prepare_artifacts holds A's
\* artifact: for an @alias the artifact of the first binding that declares
\* the alias, for a type in mode "all" the artifact of every producer, in
\* mode "single" the artifact of one of the producers.
C14_HandoffHoldsProducersArtifact ==
    \A e \in 1..Len(sink_log) :
        sink_log[e].op = "prepare_artifacts" =>
            LET b == sink_log[e].binding
                from(a) == \E artifact \in sink_log[e].artifacts : artifact.produced_by = a
            IN \A k \in 1..Len(bindings[b].consumes) :
                   LET request == bindings[b].consumes[k]
                       first == {a \in BindingIds : ConsumesFrom(b, a)}
                   IN IF request.token.at
                      THEN \A a \in first \cap ProducersFor(b, request.token) : from(a)
                      ELSE IF request.mode = "all"
                      THEN \A a \in ProducersFor(b, request.token) : from(a)
                      ELSE ProducersFor(b, request.token) # {}
                               => \E a \in ProducersFor(b, request.token) : from(a)

\* a level that is None or the empty string
NoLevel(level) == level = None \/ level[1] = ""

\* C21 (as claimed): when the artifact a sink returned has no security level
\* and the configured descriptor declares none, the level recorded in the
\* store is the security level of the producing binding.
C21_BindingLevelFallback ==
    \A e \in 1..Len(register_log) :
        LET call == register_log[e]
            binding == bindings[call.binding]
        IN (/\ NoLevel(call.artifact.security_level)
            /\ NoLevel(binding.artifact_config[call.descriptor].security_level))
               => call.registered.security_level = binding.security_level

\* C22 (as claimed): an alias or name refers to the first artifact that was
\* registered under it; a later register call with the same key does not
\* change what get_by_alias returns.
C22_AliasFirstWriteWins ==
    [][\A key \in DOMAIN store.by_alias :
           GetByAlias(store', key) = GetByAlias(store, key)]_vars

\* the artifacts of the per-type lists, with the list and position of each
TypeEntries ==
    UNION {{<<type, n>> : n \in 1..Len(store.by_type[type])} :
               type \in DOMAIN store.by_type}

\* C23 (as claimed): no two artifacts held by the store share an id, and a
\* register call with an id that is already present is fatal to the pipeline.
C23_IdsUnique ==
    /\ \A x, y \in TypeEntries :
           x # y => store.by_type[x[1]][x[2]].id # store.by_type[y[1]][y[2]].id
    /\ (\E i, j \in 1..Len(register_log) :
            i < j /\ register_log[i].registered.id = register_log[j].registered.id)
           => pl_pc = "failed"

(***************************************************************************)
(* One cycle from SDARunner.run to the payload metadata: the sequential    *)
(* loop over the rows, RowProcessor.process_row with its criteria loop,    *)
(* every LLM call made through LLMExecutor.execute (the actions above),    *)
(* and ResultAggregator.build_payload.  The cycle has no checkpoint, no    *)
(* halt condition, no transform plugin, no sink and no concurrency         *)
(* configuration, and prompt rendering does not fail.                      *)
(***************************************************************************)
\* number of rows, number of criteria (0: `criteria` is None or empty), the
\* configured level and the level the DataFrame carries
CycleConfigs ==
    [rows : 1..MaxCycleRows, criteria : 0..MaxCriteria,
     security_level : {None, Some("official")},
     df_security_level : {None, Some("secret")}]

\* `if self.criteria:` one executor call per criterion, else a single call
CallsPerRow(config) == IF config.criteria = 0 THEN 1 ELSE config.criteria

\* truth value of an optional string or dict: None is falsy, every retry
\* dict and every level string used here is not empty
Present(value) == value # None

\* the record process_row returns: `response` is the response of the last
\* executor call made for the row
RowRecord(row, resp, level) ==
    [row |-> row,
     retry |-> IF Present(resp.retry) THEN resp.retry ELSE None,
     security_level |-> IF Present(level) THEN level ELSE None]

\* the failure carries no retry info
FailureRetryDropped(info) == None

\* `history = getattr(exc, "_dmp_retry_history", None); if history:`
FailureRetry(info) ==
    IF info # None /\ info[1].history # <<>> THEN info ELSE None

\* the failure process_row returns in `except Exception`
RowFailure(row, info) == [row |-> row, retry |-> FailureRetry(info)]

\* the retries counted for records[k..]: max(attempts - 1, 0) where a retry
\* dict is present
RECURSIVE TotalRetries(_, _)
TotalRetries(items, k) ==
    IF k > Len(items) THEN 0
    ELSE (IF Present(items[k].retry) /\ items[k].retry[1].attempts > 1
          THEN items[k].retry[1].attempts - 1 ELSE 0)
         + TotalRetries(items, k + 1)

\* ResultAggregator._build_retry_summary
BuildRetrySummary(results, fs) ==
    IF \/ \E k \in 1..Len(results) : Present(results[k].retry)
       \/ \E j \in 1..Len(fs) : Present(fs[j].retry)
    THEN Some([total_requests |-> Len(results) + Len(fs),
               total_retries |-> TotalRetries(results, 1) + TotalRetries(fs, 1),
               exhausted |-> Len(fs)])
    ELSE None

\* the metadata of build_payload
BuildMetadata(results, fs, level) ==
    [rows |-> Len(results),
     retry_summary |-> BuildRetrySummary(results, fs),
     security_level |-> IF Present(level) THEN level ELSE None]

\* run up to its loop: the executor, the row processor (with the runner's
\* _active_security_level as it is at that moment) and the aggregator are
\* constructed
CycleRunBegin ==
    /\ cy_pc = "init"
    /\ rp_security_level' = active_security_level
    /\ agg_results' = <<>>
    /\ agg_failures' = <<>>
    /\ cy_row' = 1
    /\ cy_pc' = "row"
    /\ UNCHANGED <<notCycleVars, cy_cfg, active_security_level, cy_crit,
                   rp_response, metadata, exec_calls>>

\* the sequential loop hands the next row to process_row
CycleNextRow ==
    /\ cy_pc = "row"
    /\ cy_row <= cy_cfg.rows
    /\ cy_crit' = 1
    /\ cy_pc' = "criterion"
    /\ UNCHANGED <<notCycleVars, cy_cfg, active_security_level,
                   rp_security_level, cy_row, rp_response, agg_results,
                   agg_failures, metadata, exec_calls>>

\* process_row calls self.llm_executor.execute for the next criterion, or
\* for the row when there are no criteria
RowCallExecutor ==
    /\ cy_pc = "criterion"
    /\ cy_crit <= CallsPerRow(cy_cfg)
    /\ cy_pc' = "call"
    /\ ex_pc' = "loop"
    /\ attempt' = 0
    /\ cur_error' = None
    /\ last_error' = None
    /\ attempt_history' = <<>>
    /\ mw_k' = 0
    /\ ex_result' = None
    /\ ex_request' = None
    /\ response' = None
    /\ error_retry' = None
    /\ generate_log' = <<>>
    /\ hook_log' = <<>>
    /\ mw_log' = <<>>
    /\ UNCHANGED <<runnerVars, coordVars, pipeVars, suiteVars, mergeVars, gateVars,
                   buildVars, ex_cfg, cy_cfg,
                   active_security_level, rp_security_level, cy_row, cy_crit,
                   rp_response, agg_results, agg_failures, metadata,
                   exec_calls>>

\* entry of exec_calls
ExecCall(row, outcome) ==
    [row |-> row, outcome |-> outcome, attempts |-> attempt,
     generate |-> generate_log]

\* execute returned: `responses[crit_name] = response` / `response = ...`
RowExecReturned ==
    /\ cy_pc = "call"
    /\ ex_pc = "returned"
    /\ rp_response' = response
    /\ cy_crit' = cy_crit + 1
    /\ exec_calls' = Append(exec_calls, ExecCall(cy_row, "return"))
    /\ cy_pc' = "criterion"
    /\ UNCHANGED <<notCycleVars, cy_cfg, active_security_level,
                   rp_security_level, cy_row, agg_results, agg_failures,
                   metadata>>

\* after the last call process_row builds the record and returns it; the
\* loop of run passes it to handle_success
RowBuildRecord ==
    /\ cy_pc = "criterion"
    /\ cy_crit > CallsPerRow(cy_cfg)
    /\ agg_results' = Append(agg_results,
                             RowRecord(cy_row, rp_response[1], rp_security_level))
    /\ cy_row' = cy_row + 1
    /\ cy_pc' = "row"
    /\ UNCHANGED <<notCycleVars, cy_cfg, active_security_level,
                   rp_security_level, cy_crit, rp_response, agg_failures,
                   metadata, exec_calls>>

\* execute raised: `except Exception` of process_row returns the failure,
\* the loop of run passes it to handle_failure
RowExecRaised ==
    /\ cy_pc = "call"
    /\ ex_pc = "raised"
    /\ agg_failures' = Append(agg_failures, RowFailure(cy_row, error_retry))
    /\ exec_calls' = Append(exec_calls, ExecCall(cy_row, "raise"))
    /\ cy_row' = cy_row + 1
    /\ cy_pc' = "row"
    /\ UNCHANGED <<notCycleVars, cy_cfg, active_security_level,
                   rp_security_level, cy_crit, rp_response, agg_results,
                   metadata>>

\* after the loop: build_payload, the pipeline of no sinks, and
\* `self._active_security_level = None`
CycleBuildPayload ==
    /\ cy_pc = "row"
    /\ cy_row > cy_cfg.rows
    /\ metadata' = Some(BuildMetadata(agg_results, agg_failures,
                                      active_security_level))
    /\ active_security_level' = None
    /\ cy_pc' = "done"
    /\ UNCHANGED <<notCycleVars, cy_cfg, rp_security_level, cy_row, cy_crit,
                   rp_response, agg_results, agg_failures, exec_calls>>

\* an SDARunner as its constructor leaves it (_active_security_level is the
\* dataclass default), run has been called.  The executor has any
\* retry_config up to MaxCycleAttempts, at most one middleware, possibly a
\* rate limiter, no cost tracker, and a client whose responses have no
\* "retry" key.
InitCycle ==
    /\ SuiteUnused
    /\ MergeUnused
    /\ GateUnused
    /\ BuildUnused
    /\ RunnerUnused
    /\ CoordUnused
    /\ PipeUnused
    /\ ex_cfg \in {c \in ExecConfigs :
                      /\ c.max_attempts \in 0..MaxCycleAttempts
                      /\ Len(c.middlewares) <= 1
                      /\ \A k \in 1..Len(c.middlewares) : c.middlewares[k].hook
                      /\ ~c.cost_tracker
                      /\ ~c.client_retry}
    /\ ex_pc = "off"
    /\ attempt = 0
    /\ cur_error = None
    /\ last_error = None
    /\ attempt_history = <<>>
    /\ mw_k = 0
    /\ ex_result = None
    /\ ex_request = None
    /\ response = None
    /\ error_retry = None
    /\ generate_log = <<>>
    /\ hook_log = <<>>
    /\ mw_log = <<>>
    /\ cy_cfg \in CycleConfigs
    /\ active_security_level = None
    /\ rp_security_level = None
    /\ cy_pc = "init"
    /\ cy_row = 0
    /\ cy_crit = 0
    /\ rp_response = None
    /\ agg_results = <<>>
    /\ agg_failures = <<>>
    /\ metadata = None
    /\ exec_calls = <<>>

NextCycle ==
    \/ CycleRunBegin
    \/ CycleNextRow
    \/ RowCallExecutor
    \/ NextExec
    \/ RowExecReturned
    \/ RowBuildRecord
    \/ RowExecRaised
    \/ CycleBuildPayload

SpecCycle == InitCycle /\ [][NextCycle]_vars

\* the executor calls in which llm_client.generate was called in each of
\* the max_attempts attempts and raised each time
GenerateFailedAlways(call) ==
    /\ ex_cfg.max_attempts >= 1
    /\ Len(call.generate) = ex_cfg.max_attempts
    /\ \A g \in 1..Len(call.generate) : ~call.generate[g].ok

\* C17: a row whose LLM call failed on all max_attempts attempts has exactly
\* one Failure and no Record in the aggregator; the Failure carries
\* retry.attempts = max_attempts and a retry.history of max_attempts entries,
\* the last of status error.
C17_ExhaustionYieldsFailure ==
    \A c \in 1..Len(exec_calls) :
        GenerateFailedAlways(exec_calls[c]) =>
            /\ exec_calls[c].outcome = "raise"
            /\ Count(agg_results, LAMBDA r : r.row = exec_calls[c].row) = 0
            /\ Count(agg_failures, LAMBDA f : f.row = exec_calls[c].row) = 1
            /\ \A k \in 1..Len(agg_failures) :
                   agg_failures[k].row = exec_calls[c].row =>
                       /\ agg_failures[k].retry # None
                       /\ LET info == agg_failures[k].retry[1]
                          IN /\ info.attempts = ex_cfg.max_attempts
                             /\ Len(info.history) = ex_cfg.max_attempts
                             /\ info.history[Len(info.history)].status = "error"

\* two criteria, max_attempts 2: the call for the first criterion of row 1
\* returned, the call for the second failed twice in generate; the cycle
\* went on to row 2 and ended
C17_Witness ==
    /\ cy_pc = "done"
    /\ cy_cfg.rows = 2
    /\ cy_cfg.criteria = 2
    /\ ex_cfg.max_attempts = 2
    /\ Len(exec_calls) >= 3
    /\ exec_calls[1].outcome = "return"
    /\ exec_calls[2].row = 1
    /\ GenerateFailedAlways(exec_calls[2])
    /\ agg_failures[1].retry[1].attempts = 2
    /\ Len(agg_results) = 1

\* the sum of (attempts - 1) over the executor calls made[k..]
RECURSIVE CallRetries(_, _)
CallRetries(made, k) ==
    IF k > Len(made) THEN 0
    ELSE (made[k].attempts - 1) + CallRetries(made, k + 1)

\* C18 (as claimed): metadata.retry_summary.total_retries is the sum of
\* (attempts - 1) over all executor calls of the cycle, the per-criterion
\* calls of a row with several criteria included.
C18_TotalRetriesIsSum ==
    (/\ cy_pc = "done"
     /\ ex_cfg.max_attempts >= 1
     /\ metadata[1].retry_summary # None) =>
        metadata[1].retry_summary[1].total_retries = CallRetries(exec_calls, 1)

\* C19 (as claimed): when every LLM call of the cycle succeeded on its first
\* attempt and the client's responses have no retry field, the metadata has
\* no retry_summary.
C19_NoSummaryWithoutRetries ==
    (/\ cy_pc = "done"
     /\ ~ex_cfg.client_retry
     /\ \A c \in 1..Len(exec_calls) : /\ exec_calls[c].outcome = "return"
                                      /\ exec_calls[c].attempts = 1) =>
        metadata[1].retry_summary = None

\* resolve_security_level of the configured level and the data source's
ResolveSecurityLevel(a, b) ==
    LET present == {NormalizeSecurityLevel(l) : l \in {a, b} \ {None}}
    IN IF present = {} THEN SECURITY_LEVELS[1]
       ELSE CHOOSE l \in present : \A m \in present : LevelIndex(l) >= LevelIndex(m)

\* C20 (as claimed): every record in the results carries the cycle's
\* resolved security level, the greater of the configured level and the
\* level of the data source.
C20_RecordsCarryResolvedLevel ==
    \A k \in 1..Len(agg_results) :
        agg_results[k].security_level
            = Some(ResolveSecurityLevel(cy_cfg.security_level,
                                        cy_cfg.df_security_level))

(***************************************************************************)
(* The suite orchestrators: StandardOrchestrator.run and                   *)
(* ExperimentalOrchestrator.run.  A cycle is the record of its name, its   *)
(* metadata.is_baseline, its middleware definitions and whether            *)
(* build_runner finds both prompts; SDACycleConfig is a dataclass, so `==` *)
(* and `!=` on cycles compare field by field.  In run's lists a cycle is   *)
(* its position in suite.cycles.  A middleware definition is a number; the *)
(* instance _create_middlewares gives for it is shared by its identifier,  *)
(* so the instance is that number too.  Every middleware defines           *)
(* on_experiment_start, on_experiment_complete and on_baseline_comparison; *)
(* on_suite_loaded and on_suite_complete are each there or not.           *)
(***************************************************************************)
MiddlewareDefs == 1..MaxMiddlewareDefs

CycleNames == {"a", "b"}

SuiteMiddlewareLists == {<<>>, <<1>>, <<MaxMiddlewareDefs, 1>>}

SDACycleConfigs ==
    [name : CycleNames, is_baseline : BOOLEAN, llm_middleware_defs : SuiteMiddlewareLists,
     prompts : BOOLEAN]

Suites == UNION {[1..n -> SDACycleConfigs] : n \in 0..MaxSuiteCycles}

\* which of on_suite_loaded / on_suite_complete a middleware class defines
Hooks == [on_suite_loaded : BOOLEAN, on_suite_complete : BOOLEAN]

AllHooks == [on_suite_loaded |-> TRUE, on_suite_complete |-> TRUE]

HookTables ==
    {h \in [MiddlewareDefs -> Hooks] : \A d \in MiddlewareDefs : d > 1 => h[d] = AllHooks}

\* ExperimentalOrchestrator._identify_baseline: the position of the first
\* cycle with a truthy metadata.is_baseline, else the first cycle, 0 for None
IdentifyBaseline(cycles) ==
    IF \E i \in 1..Len(cycles) : cycles[i].is_baseline
    THEN CHOOSE i \in 1..Len(cycles) :
             /\ cycles[i].is_baseline
             /\ \A j \in 1..(i - 1) : ~cycles[j].is_baseline
    ELSE IF cycles # <<>> THEN 1 ELSE 0

\* ExperimentalOrchestrator._get_variants: `[c for c in cycles if c != baseline]`
GetVariants(cycles, baseline) ==
    SelectSeq([i \in 1..Len(cycles) |-> i], LAMBDA i : cycles[i] # cycles[baseline])

\* run's list of cycles to execute
Experiments(kind, cycles) ==
    IF kind = "standard"
    THEN [i \in 1..Len(cycles) |-> i]
    ELSE IF IdentifyBaseline(cycles) = 0
         THEN <<>>
         ELSE <<IdentifyBaseline(cycles)>>
                  \o GetVariants(cycles, IdentifyBaseline(cycles))

\* entry of su_log: a hook called on a middleware, or runner.run (mw 0)
SuiteEvent(op, cycle, mw) == [op |-> op, cycle |-> cycle, mw |-> mw]

\* `hasattr(mw, "on_suite_complete")`
HasSuiteComplete(hooks, mw) == hooks[mw].on_suite_complete

\* `hasattr(mw, "on_suite_loaded") and key not in notified_middlewares`
ShouldNotifyLoaded(hooks, seen, mw) ==
    hooks[mw].on_suite_loaded /\ mw \notin Range(seen)

\* the loop "Notify middlewares" before runner.run, from middleware k on
RECURSIVE NotifyStart(_, _, _, _, _, _)
NotifyStart(hooks, mws, k, cycle, seen, log) ==
    IF k > Len(mws)
    THEN [notified |-> seen, log |-> log]
    ELSE LET mw == mws[k]
             first == ShouldNotifyLoaded(hooks, seen, mw)
             loaded_log == IF first
                           THEN Append(log, SuiteEvent("on_suite_loaded", cycle, mw))
                           ELSE log
         IN NotifyStart(hooks, mws, k + 1, cycle,
                        IF first THEN Append(seen, mw) ELSE seen,
                        Append(loaded_log,
                               SuiteEvent("on_experiment_start", cycle, mw)))

\* one hook called on every middleware of the list, in list order
NotifyAll(op, mws, cycle) == [k \in 1..Len(mws) |-> SuiteEvent(op, cycle, mws[k])]

\* "Suite complete notification": the loop over notified_middlewares.values()
NotifySuiteComplete(hooks, seen) ==
    NotifyAll("on_suite_complete",
              SelectSeq(seen, LAMBDA mw : HasSuiteComplete(hooks, mw)), 0)

\* the cycle run's loop is at
SuiteCurrent == su_suite[experiments[su_i]]

\* `experiment == baseline` of ExperimentalOrchestrator.run
IsBaseline(cycle) ==
    su_kind = "experimental" /\ cycle = su_suite[IdentifyBaseline(su_suite)]

\* run up to its loop: the baseline is identified, the cycles are ordered
SuiteRunBegin ==
    /\ su_pc = "start"
    /\ experiments' = Experiments(su_kind, su_suite)
    /\ su_i' = 1
    /\ su_pc' = IF su_kind = "experimental" /\ IdentifyBaseline(su_suite) = 0
                THEN "returned"
                ELSE "build"
    /\ UNCHANGED <<notSuiteVars, su_kind, su_suite, su_hooks, su_mws, notified,
                   baseline_payload, su_results, shared_middlewares, su_log>>

\* the sinks are instantiated and build_runner is called for the next cycle:
\* _create_middlewares, then ConfigurationError when a prompt is blank
SuiteBuildRunner ==
    /\ su_pc = "build"
    /\ su_i <= Len(experiments)
    /\ shared_middlewares' =
           shared_middlewares \cup Range(SuiteCurrent.llm_middleware_defs)
    /\ IF SuiteCurrent.prompts
       THEN /\ su_mws' = SuiteCurrent.llm_middleware_defs
            /\ su_pc' = "notify"
       ELSE /\ su_pc' = "failed"
            /\ UNCHANGED su_mws
    /\ UNCHANGED <<notSuiteVars, su_kind, su_suite, su_hooks, experiments, su_i,
                   notified, baseline_payload, su_results, su_log>>

\* on_suite_loaded and on_experiment_start for the middlewares of the runner
SuiteNotifyStart ==
    /\ su_pc = "notify"
    /\ LET after == NotifyStart(su_hooks, su_mws, 1, experiments[su_i],
                                notified, su_log)
       IN /\ notified' = after.notified
          /\ su_log' = after.log
    /\ su_pc' = "run"
    /\ UNCHANGED <<notSuiteVars, su_kind, su_suite, su_hooks, experiments, su_i,
                   su_mws, baseline_payload, su_results, shared_middlewares>>

\* `payload = runner.run(df)`: the rows are processed and the sinks written;
\* an exception of the run ends the suite.  Then the payload is stored
SuiteRunCycle ==
    /\ su_pc = "run"
    /\ \E raises \in BOOLEAN :
           /\ su_log' = Append(su_log, SuiteEvent(IF raises THEN "run_raised"
                                                  ELSE "run",
                                                  experiments[su_i], 0))
           /\ IF raises
              THEN /\ su_pc' = "failed"
                   /\ UNCHANGED <<baseline_payload, su_results>>
              ELSE /\ su_pc' = "complete"
                   /\ baseline_payload' = IF IsBaseline(SuiteCurrent)
                                          THEN Some(experiments[su_i])
                                          ELSE baseline_payload
                   /\ su_results' = Put(su_results, SuiteCurrent.name,
                                        [config |-> experiments[su_i],
                                         baseline_comparison |-> FALSE])
    /\ UNCHANGED <<notSuiteVars, su_kind, su_suite, su_hooks, experiments, su_i,
                   su_mws, notified, shared_middlewares>>

\* on_experiment_complete for the middlewares of the runner; in the
\* experimental orchestrator a variant is then compared with the baseline
\* and a non-empty comparison is reported to the middlewares
SuiteNotifyComplete ==
    /\ su_pc = "complete"
    /\ \E diff \in {FALSE, /\ su_kind = "experimental"
                           /\ baseline_payload # None
                           /\ ~IsBaseline(SuiteCurrent)} :
           /\ su_log' = su_log
                  \o NotifyAll("on_experiment_complete", su_mws, experiments[su_i])
                  \o (IF diff
                      THEN NotifyAll("on_baseline_comparison", su_mws,
                                     experiments[su_i])
                      ELSE <<>>)
           /\ su_results' =
                  IF diff
                  THEN Put(su_results, SuiteCurrent.name,
                           [config |-> experiments[su_i],
                            baseline_comparison |-> TRUE])
                  ELSE su_results
    /\ su_i' = su_i + 1
    /\ su_pc' = "build"
    /\ UNCHANGED <<notSuiteVars, su_kind, su_suite, su_hooks, experiments, su_mws,
                   notified, baseline_payload, shared_middlewares>>

\* the loop is over: on_suite_complete, `return results`
SuiteComplete ==
    /\ su_pc = "build"
    /\ su_i > Len(experiments)
    /\ su_log' = su_log \o NotifySuiteComplete(su_hooks, notified)
    /\ su_pc' = "returned"
    /\ UNCHANGED <<notSuiteVars, su_kind, su_suite, su_hooks, experiments, su_i,
                   su_mws, notified, baseline_payload, su_results,
                   shared_middlewares>>

\* run has been called on an orchestrator of either class
InitSuite ==
    /\ RunnerUnused
    /\ CoordUnused
    /\ ExecUnused
    /\ PipeUnused
    /\ CycleUnused
    /\ MergeUnused
    /\ GateUnused
    /\ BuildUnused
    /\ su_kind \in {"standard", "experimental"}
    /\ su_suite \in Suites
    /\ su_hooks \in HookTables
    /\ su_pc = "start"
    /\ experiments = <<>>
    /\ su_i = 0
    /\ su_mws = <<>>
    /\ notified = <<>>
    /\ baseline_payload = None
    /\ su_results = <<>>
    /\ shared_middlewares = {}
    /\ su_log = <<>>

NextSuite ==
    \/ SuiteRunBegin
    \/ SuiteBuildRunner
    \/ SuiteNotifyStart
    \/ SuiteRunCycle
    \/ SuiteNotifyComplete
    \/ SuiteComplete

SpecSuite == InitSuite /\ [][NextSuite]_vars

\* the positions in su_log of one event
EventIndexes(op, cycle, mw) ==
    {n \in 1..Len(su_log) : su_log[n] = SuiteEvent(op, cycle, mw)}

\* the runner.run calls made, as suite positions in call order
RunOrder ==
    LET runs == SelectSeq(su_log, LAMBDA e : e.op \in {"run", "run_raised"})
    IN [k \in 1..Len(runs) |-> runs[k].cycle]

\* the cycles of the suite other than the one at position baseline
OtherCycles(baseline) ==
    SelectSeq([i \in 1..Len(su_suite) |-> i], LAMBDA i : i # baseline)

\* C26: when ExperimentalOrchestrator.run returns, runner.run was called
\* first for the baseline (the first cycle with a truthy is_baseline, else
\* the first cycle) and then once for every other cycle of the suite in
\* declared order, and the events of one cycle are not interleaved with those
\* of another.
C26_BaselineThenEveryOther ==
    (su_kind = "experimental" /\ su_pc = "returned") =>
        /\ RunOrder = IF su_suite = <<>>
                      THEN <<>>
                      ELSE <<IdentifyBaseline(su_suite)>>
                               \o OtherCycles(IdentifyBaseline(su_suite))
        /\ \A i, j, k \in 1..Len(su_log) :
               (i < j /\ j < k /\ su_log[i].cycle = su_log[k].cycle
                      /\ su_log[i].cycle # 0) =>
                   su_log[j].cycle = su_log[i].cycle

\* the cycles run whose runner has middleware mw
AttachedTo(mw) ==
    {c \in Range(experiments) : mw \in Range(su_suite[c].llm_middleware_defs)}

\* all of the first events are earlier in su_log than all of the second
AllBefore(first, second) == \A i \in first, j \in second : i < j

\* C27: when a suite run returns, every middleware instance used by a cycle
\* has received the on_suite_loaded it defines exactly once and before its
\* first on_experiment_start, on_experiment_start before and
\* on_experiment_complete after the run of each cycle it is attached to, and
\* the on_suite_complete it defines exactly once, after the last run.
C27_LifecycleCallbacks ==
    su_pc = "returned" =>
        \A mw \in MiddlewareDefs :
            AttachedTo(mw) # {} =>
                LET runs == {n \in 1..Len(su_log) : su_log[n].op = "run"}
                    starts == {n \in 1..Len(su_log) :
                                   /\ su_log[n].op = "on_experiment_start"
                                   /\ su_log[n].mw = mw}
                    loads == {n \in 1..Len(su_log) :
                                   /\ su_log[n].op = "on_suite_loaded"
                                   /\ su_log[n].mw = mw}
                    completes == EventIndexes("on_suite_complete", 0, mw)
                IN /\ su_hooks[mw].on_suite_loaded =>
                          Cardinality(loads) = 1 /\ AllBefore(loads, starts)
                   /\ \A c \in AttachedTo(mw) :
                          /\ EventIndexes("on_experiment_start", c, mw) # {}
                          /\ EventIndexes("on_experiment_complete", c, mw) # {}
                          /\ AllBefore(EventIndexes("on_experiment_start", c, mw),
                                       EventIndexes("run", c, 0))
                          /\ AllBefore(EventIndexes("run", c, 0),
                                       EventIndexes("on_experiment_complete", c, mw))
                   /\ su_hooks[mw].on_suite_complete =>
                          Cardinality(completes) = 1 /\ AllBefore(runs, completes)

\* some cycle of the suite has a configuration error
HasConfigurationError == \E i \in 1..Len(su_suite) : ~su_suite[i].prompts

\* C28: when a cycle of the suite has a configuration error, the suite run
\* does not return and no cycle is run: no row is processed, no sink written.
C28_ConfigurationErrorBeforeAnyRun ==
    HasConfigurationError =>
        /\ su_pc # "returned"
        /\ RunOrder = <<>>

(***************************************************************************)
(* ConfigurationMerger.merge.  A configuration value is tagged with its    *)
(* Python type, as the code tells the types apart with isinstance: a list  *)
(* is [list |-> its items], a dict is [dict |-> its entries], any other    *)
(* value is [scalar |-> it].  A source's data and the merged result are    *)
(* functions from keys to values.  The keys stand for one key of each      *)
(* strategy: "rate_limit" (OVERRIDE), "sinks" (APPEND), "llm"              *)
(* (DEEP_MERGE).                                                           *)
(***************************************************************************)
Scalar(v) == [scalar |-> v]

List(items) == [list |-> items]

Dict(entries) == [dict |-> entries]

\* `isinstance(value, list)`
IsList(value) == "list" \in DOMAIN value

\* `isinstance(value, dict)`
IsDict(value) == "dict" \in DOMAIN value

\* the untagged value, as it is put into a list by `.append(value)`
ListItem(value) == IF "scalar" \in DOMAIN value THEN value.scalar ELSE value

EmptyDict == [key \in {} |-> key]

Entry(key, value) == [k \in {key} |-> value]

MERGE_STRATEGIES == [key \in {"sinks", "llm", "prompts"} |->
                         IF key = "sinks" THEN "append" ELSE "deep_merge"]

\* `self.MERGE_STRATEGIES.get(key, MergeStrategy.OVERRIDE)`
Strategy(key) ==
    IF key \in DOMAIN MERGE_STRATEGIES THEN MERGE_STRATEGIES[key] ELSE "override"

\* the order in which a source's data lists its keys
KeyOrder == <<"rate_limit", "sinks", "llm">>

\* the names the sources are given, by their position in the call
SourceNames == <<"defaults", "prompt_pack", "profile", "suite", "cycle">>

\* the values a source may hold under a key; Scalar("absent") is no entry
KeyValues(key, name) ==
    CASE key = "rate_limit" -> <<Scalar("absent"), Scalar(name)>>
      [] key = "sinks" ->
             <<Scalar("absent"), List(<<>>), List(<<"x">>), Scalar(name)>>
      [] key = "llm" ->
             <<Scalar("absent"), Scalar(name),
               Dict(Entry("options", Scalar(name))),
               Dict(Entry("options", Dict(Entry(name, Scalar(name))))),
               Dict(Entry("options", Dict(Entry("t", Scalar(name)))))>>

\* which of its values a source holds under each key
Choices == [rate_limit : 1..2, sinks : 1..4, llm : 1..5]

\* a source's data: the entries that are there
SourceData(name, choice) ==
    [key \in {k \in Range(KeyOrder) :
                  KeyValues(k, name)[choice[k]] # Scalar("absent")} |->
         KeyValues(key, name)[choice[key]]]

\* the precedences given to n sources: ascending, rotated, and with a tie
Precedences(n) ==
    {[i \in 1..n |-> i],
     [i \in 1..n |-> ((i + n - 2) % n) + 1],
     [i \in 1..n |-> IF i = 1 THEN 2 ELSE 1]}

ConfigSource(name, data, precedence) ==
    [name |-> name, data |-> data, precedence |-> precedence]

\* `sorted(sources, key=lambda s: s.precedence)`: ascending, ties in the
\* order given
SortByPrecedence(sources) ==
    LET n == Len(sources)
        Rank(i) == 1 + Cardinality({j \in 1..n :
                           \/ sources[j].precedence < sources[i].precedence
                           \/ /\ sources[j].precedence = sources[i].precedence
                              /\ j < i})
    IN [r \in 1..n |-> sources[CHOOSE i \in 1..n : Rank(i) = r]]

\* APPEND where the items already in the list are not added again
AppendValueUnique(items, value) ==
    IF IsList(value)
    THEN items \o SelectSeq(value.list, LAMBDA item : item \notin Range(items))
    ELSE Append(items, ListItem(value))

\* APPEND where a value that is not a list replaces what was accumulated
AppendValueReplacing(items, value) ==
    IF IsList(value) THEN items \o value.list ELSE <<ListItem(value)>>

\* _merge_source, APPEND: `result[key] + value` for a list, else `.append`
AppendValue(items, value) ==
    IF IsList(value) THEN items \o value.list ELSE Append(items, ListItem(value))

\* ConfigurationMerger._deep_merge_dict on the entries of two dicts
RECURSIVE DeepMergeDict(_, _)
DeepMergeDict(base, override) ==
    [key \in DOMAIN base \cup DOMAIN override |->
         IF key \notin DOMAIN override
         THEN base[key]
         ELSE IF key \in DOMAIN base /\ IsDict(base[key]) /\ IsDict(override[key])
              THEN Dict(DeepMergeDict(base[key].dict, override[key].dict))
              ELSE override[key]]

\* _merge_source: what one key of the source makes of result[key]
MergeKey(base, key, value) ==
    CASE Strategy(key) = "override" -> value
      [] Strategy(key) = "append" ->
             List(AppendValue(IF key \in DOMAIN base THEN base[key].list ELSE <<>>,
                              value))
      [] Strategy(key) = "deep_merge" ->
             Dict(DeepMergeDict(IF key \in DOMAIN base THEN base[key].dict
                                ELSE EmptyDict,
                                value.dict))

\* `override.items()` of _deep_merge_dict on a value that is no dict
\* raises AttributeError
KeyRaises(key, value) == Strategy(key) = "deep_merge" /\ ~IsDict(value)

\* the keys of the data in the order the loop of _merge_source takes them
KeysOf(data) == SelectSeq(KeyOrder, LAMBDA key : key \in DOMAIN data)

\* the keys the loop of _merge_source handles before it raises, all if none
HandledKeys(data) ==
    LET keys == KeysOf(data)
        bad == {n \in 1..Len(keys) : KeyRaises(keys[n], data[keys[n]])}
    IN IF bad = {}
       THEN keys
       ELSE SubSeq(keys, 1, (CHOOSE n \in bad : \A m \in bad : n <= m) - 1)

\* ConfigurationMerger._merge_source without the trace
MergeSource(base, data) ==
    [key \in DOMAIN base \cup DOMAIN data |->
         IF key \in DOMAIN data THEN MergeKey(base, key, data[key]) ELSE base[key]]

\* the entries _merge_source adds to _merge_trace
TraceOf(source) ==
    [n \in 1..Len(HandledKeys(source.data)) |->
         [key |-> HandledKeys(source.data)[n],
          strategy |-> Strategy(HandledKeys(source.data)[n]),
          source |-> source.name]]

\* merge as a function: the sources folded in ascending precedence
RECURSIVE MergeFrom(_, _, _)
MergeFrom(base, sources, k) ==
    IF k > Len(sources)
    THEN base
    ELSE MergeFrom(MergeSource(base, sources[k].data), sources, k + 1)

Merge(sources) == MergeFrom(EmptyDict, SortByPrecedence(sources), 1)

\* merge up to its loop
MergeBegin ==
    /\ mg_pc = "start"
    /\ sorted_sources' = SortByPrecedence(mg_sources)
    /\ merged' = EmptyDict
    /\ merge_trace' = <<>>
    /\ mg_k' = 1
    /\ mg_pc' = "loop"
    /\ UNCHANGED <<notMergeVars, mg_sources, mg_error, explanation>>

\* `merged = self._merge_source(merged, source)` for the next source
MergeNextSource ==
    /\ mg_pc = "loop"
    /\ mg_k <= Len(sorted_sources)
    /\ LET source == sorted_sources[mg_k]
       IN /\ merge_trace' = merge_trace \o TraceOf(source)
          /\ IF \E key \in DOMAIN source.data : KeyRaises(key, source.data[key])
             THEN /\ mg_pc' = "raised"
                  /\ mg_error' = Some("AttributeError")
                  /\ UNCHANGED <<merged, mg_k>>
             ELSE /\ merged' = MergeSource(merged, source.data)
                  /\ mg_k' = mg_k + 1
                  /\ UNCHANGED <<mg_pc, mg_error>>
    /\ UNCHANGED <<notMergeVars, mg_sources, sorted_sources, explanation>>

\* `return merged`
MergeReturn ==
    /\ mg_pc = "loop"
    /\ mg_k > Len(sorted_sources)
    /\ mg_pc' = "returned"
    /\ UNCHANGED <<notMergeVars, mg_sources, sorted_sources, mg_k, merged,
                   merge_trace, mg_error, explanation>>

\* the dotted keys explain is asked about, as `key.split(".")` gives them
ExplainKeys ==
    {<<"rate_limit">>, <<"sinks">>, <<"llm", "options">>, <<"llm", "options", "t">>}

\* explain's walk down the keys: the value reached, None when a key of the
\* walk is not there or the value above it is no dict
RECURSIVE Lookup(_, _)
Lookup(value, keys) ==
    IF keys = <<>>
    THEN Some(value)
    ELSE IF IsDict(value) /\ Head(keys) \in DOMAIN value.dict
         THEN Lookup(value.dict[Head(keys)], Tail(keys))
         ELSE None

\* ConfigurationMerger.explain: the parts of the string it returns; the
\* source and strategy lines are those of the last trace entry of keys[0]
Explain(keys, merged_config, trace) ==
    LET value == Lookup(Dict(merged_config), keys)
        relevant_traces == SelectSeq(trace, LAMBDA t : t.key = keys[1])
    IN IF value = None
       THEN [key |-> keys, found |-> FALSE, value |-> Scalar("<not found>"),
             source |-> None, strategy |-> None]
       ELSE IF relevant_traces = <<>>
            THEN [key |-> keys, found |-> TRUE, value |-> value[1],
                  source |-> Some("<unknown>"), strategy |-> None]
            ELSE LET last_trace == relevant_traces[Len(relevant_traces)]
                 IN [key |-> keys, found |-> TRUE, value |-> value[1],
                     source |-> Some(last_trace.source),
                     strategy |-> Some(last_trace.strategy)]

\* `merger.explain(key, merged)` on the map merge returned
MergeExplain ==
    /\ mg_pc = "returned"
    /\ \E keys \in ExplainKeys : explanation' = Some(Explain(keys, merged, merge_trace))
    /\ mg_pc' = "explained"
    /\ UNCHANGED <<notMergeVars, mg_sources, sorted_sources, mg_k, merged,
                   merge_trace, mg_error>>

\* merge has been called with some sources
InitMerge ==
    /\ RunnerUnused
    /\ CoordUnused
    /\ ExecUnused
    /\ PipeUnused
    /\ CycleUnused
    /\ SuiteUnused
    /\ GateUnused
    /\ BuildUnused
    /\ \E n \in 1..MaxSources :
           \E choice \in [1..n -> Choices], precedence \in Precedences(n) :
               mg_sources = [i \in 1..n |->
                                 ConfigSource(SourceNames[i],
                                              SourceData(SourceNames[i], choice[i]),
                                              precedence[i])]
    /\ mg_pc = "start"
    /\ sorted_sources = <<>>
    /\ mg_k = 0
    /\ merged = <<>>
    /\ merge_trace = <<>>
    /\ mg_error = None
    /\ explanation = None

NextMerge ==
    \/ MergeBegin
    \/ MergeNextSource
    \/ MergeReturn
    \/ MergeExplain

SpecMerge == InitMerge /\ [][NextMerge]_vars

\* the keys with the APPEND strategy
AppendKeys == {key \in DOMAIN MERGE_STRATEGIES : MERGE_STRATEGIES[key] = "append"}

\* the sources that have the key, in ascending precedence
Contributors(key) ==
    SelectSeq(SortByPrecedence(mg_sources), LAMBDA source : key \in DOMAIN source.data)

\* the lists joined in sequence order
RECURSIVE Concatenation(_)
Concatenation(lists) ==
    IF lists = <<>> THEN <<>> ELSE Head(lists) \o Concatenation(Tail(lists))

RECURSIVE SumOfLengths(_)
SumOfLengths(lists) ==
    IF lists = <<>> THEN 0 ELSE Len(Head(lists)) + SumOfLengths(Tail(lists))

\* C29: for an APPEND key whose values are lists, merge returns the lists of
\* the sources that have the key joined in ascending precedence, duplicates
\* kept: the result is as long as the lists together.
C29_AppendConcatenates ==
    mg_pc = "returned" =>
        \A key \in AppendKeys :
            LET sources == Contributors(key)
                lists == [n \in 1..Len(sources) |-> sources[n].data[key].list]
            IN (sources # <<>> /\ \A n \in 1..Len(sources) : IsList(sources[n].data[key])) =>
                   /\ key \in DOMAIN merged
                   /\ merged[key] = List(Concatenation(lists))
                   /\ Len(merged[key].list) = SumOfLengths(lists)

\* three sources given out of precedence order each contribute the same
\* item, which the result holds three times
C29_Witness ==
    /\ mg_pc = "returned"
    /\ Len(mg_sources) = 3
    /\ mg_sources[1].precedence > mg_sources[2].precedence
    /\ \A i \in 1..3 : "sinks" \in DOMAIN mg_sources[i].data
                       /\ mg_sources[i].data["sinks"] = List(<<"x">>)
    /\ merged["sinks"] = List(<<"x", "x", "x">>)

\* the merge of the lowest of three sources with the merge of the two higher
\* ones, given to merge as one source of higher precedence
Grouped ==
    LET sorted == SortByPrecedence(mg_sources)
        higher == Merge(<<sorted[2], sorted[3]>>)
    IN Merge(<<sorted[1],
               ConfigSource("merged", higher, sorted[1].precedence + 1)>>)

\* C30 (as claimed): for three sources, merging all three at once gives the
\* same map as merging the lowest with the merge of the two higher ones.
C30_GroupingIrrelevant ==
    (mg_pc = "returned" /\ Len(mg_sources) = 3) => merged = Grouped

\* at every nested key the dicts have in common, and below, their values are
\* all dicts or all something else
RECURSIVE KindsAgree(_)
KindsAgree(dicts) ==
    \A key \in UNION {DOMAIN d : d \in dicts} :
        LET values == {d[key] : d \in {e \in dicts : key \in DOMAIN e}}
        IN /\ \A v, w \in values : IsDict(v) <=> IsDict(w)
           /\ (\E v \in values : IsDict(v)) => KindsAgree({v.dict : v \in values})

\* the values of the sources under the DEEP_MERGE keys
DeepValues(key) ==
    {mg_sources[i].data[key].dict :
         i \in {n \in 1..Len(mg_sources) : key \in DOMAIN mg_sources[n].data}}

\* C30 (amended): the two ways of merging three sources give the same map
\* when no nested key of a DEEP_MERGE value holds a map in one source and a
\* value that is no map in another.
C30_GroupingIrrelevantForAgreeingKinds ==
    (mg_pc = "returned" /\ Len(mg_sources) = 3
     /\ \A key \in DOMAIN MERGE_STRATEGIES :
            MERGE_STRATEGIES[key] = "deep_merge" => KindsAgree(DeepValues(key))) =>
        merged = Grouped

\* three sources with a key of each strategy; the nested maps of the three
\* have been united, the lists joined, a value that is no list appended
C30_Witness ==
    /\ mg_pc = "returned"
    /\ Len(mg_sources) = 3
    /\ \A i \in 1..3 : DOMAIN mg_sources[i].data = Range(KeyOrder)
    /\ merged["llm"].dict["options"]
           = Dict([name \in {"defaults", "prompt_pack", "profile"} |-> Scalar(name)])
    /\ \E i \in 1..3 : ~IsList(mg_sources[i].data["sinks"])
    /\ Len(merged["sinks"].list) = 3
    /\ merged = Grouped

\* C31: merge is total: whatever maps the sources hold, also a value that
\* is no map under a DEEP_MERGE key and a value that is no list under an
\* APPEND key, merge raises no error.
C31_MergeTotal ==
    /\ mg_pc # "raised"
    /\ mg_error = None

\* the sources whose data has a value at the dotted key, ascending precedence
Definers(keys) ==
    SelectSeq(SortByPrecedence(mg_sources),
              LAMBDA source : Lookup(Dict(source.data), keys) # None)

\* C32: after merge, explain of a key that is in the merged map reports the
\* final value and, as the source, the highest-precedence source that
\* defines that key, nested keys included.
C32_ExplainNamesLastSetter ==
    (mg_pc = "explained" /\ explanation[1].found) =>
        LET keys == explanation[1].key
            definers == Definers(keys)
        IN /\ Some(explanation[1].value) = Lookup(Dict(merged), keys)
           /\ definers # <<>>
           /\ explanation[1].source = Some(definers[Len(definers)].name)

\* C33: with checkpointing, when a run that was interrupted in the sink
\* pipeline is resumed on the same input and checkpoint file, every row a
\* record was accepted for has had its record written to the sinks by the
\* time the resumed run ends.
C33_ResumeLosesNoRecord ==
    (cfg.checkpoint /\ pc = "done") => recorded \subseteq sunk

\* worker w has passed the entry check of worker() and still has its row
PastEntry(w) == tpc[w] \in {"process", "commit", "mark", "check"}

\* C35: in parallel mode, once the dispatcher has seen the halt signal it
\* submits nothing, and while the signal is set a worker that starts returns
\* at its entry check: the LLM is called and records and failures are added
\* only for the rows of workers that had passed the entry check before.
C35_HaltStopsNewWork ==
    [][/\ pc = "join" => Len(queue') <= Len(queue) /\ next_i' = next_i
       /\ (pc \in {"dispatch", "join"} /\ event) =>
              /\ Len(queue') <= Len(queue)
              /\ \A w \in 1..MaxWorkers :
                     ~PastEntry(w) => tpc'[w] = tpc[w] /\ tdata'[w] = tdata[w]
              /\ llm_calls' \subseteq
                     llm_calls \cup {tdata[w].idx :
                                        w \in {v \in 1..MaxWorkers : tpc[v] = "process"}}
              /\ Len(results_with_index') > Len(results_with_index) =>
                     \E w \in 1..MaxWorkers :
                         /\ tpc[w] = "commit"
                         /\ tres[w].record # None
                         /\ results_with_index' =
                                Append(results_with_index,
                                       <<tdata[w].idx, tres[w].record[1]>>)
              /\ Len(failures') > Len(failures) =>
                     \E w \in 1..MaxWorkers :
                         /\ PastEntry(w)
                         /\ tres[w].failure # None
                         /\ failures' = Append(failures, tres[w].failure[1])]_vars

\* both tuples were submitted; the record of the first set the signal before
\* a worker took the second, which was then dropped at the entry check
C35_Witness ==
    /\ pc = "join"
    /\ event
    /\ Len(rows_to_process) = 2
    /\ next_i = 3
    /\ queue = <<>>
    /\ \A w \in 1..MaxWorkers : tpc[w] = "idle"
    /\ handed[rows_to_process[1].idx] = 1
    /\ handed[rows_to_process[2].idx] = 0
    /\ Len(results_with_index) = 1
    /\ failures = <<>>

(***************************************************************************)
(* The backpressure gate of SDARunner._run_parallel with a                 *)
(* FixedWindowRateLimiter.  The dispatcher reads the limiter's utilization *)
(* before each submit; every pool worker makes one LLM call, for which the *)
(* executor enters `rate_limiter.acquire()`.  Time is counted in ticks:    *)
(* window_age is `now - _window_start` as far as acquire can tell (up to   *)
(* per_seconds), a sleeping thread wakes when its time has run down, and   *)
(* the statements inside `with self._lock:` take no time.  usage_ratio is  *)
(* held in units of 1/requests and utilization_pause in tenths.            *)
(***************************************************************************)
\* the configurations: utilization_pause is 0.8 or switched off
GateConfigs ==
    [requests : 1..MaxRequests, per_seconds : 1..MaxPerSeconds, pause : {0, 8},
     rows : 1..MaxGateRows]

\* `min(1.0, self._count / self.requests)`
UsageRatio(count, requests) == IF count > requests THEN requests ELSE count

\* FixedWindowRateLimiter.utilization
Utilization(ratio, requests) == IF ratio > requests THEN requests ELSE ratio

\* `utilization < pause_threshold`
BelowPause(utilization, config) == utilization * 10 < config.pause * config.requests

\* the limiter without its lock
MayLockAlways(w) == TRUE

\* `with self._lock:` can be entered
MayLock(w) == rl_lock = 0

\* `utilization = self.rate_limiter.utilization()` and the test that follows
GateRead ==
    /\ bp_pc = "gate"
    /\ bp_i <= rl_cfg.rows
    /\ IF rl_cfg.pause > 0
       THEN /\ rl_lock = 0
            /\ IF BelowPause(Utilization(usage_ratio, rl_cfg.requests), rl_cfg)
               THEN /\ bp_pc' = "submit"
                    /\ UNCHANGED bp_sleep
               ELSE /\ bp_pc' = "pause"
                    /\ bp_sleep' = 1
       ELSE /\ bp_pc' = "submit"
            /\ UNCHANGED bp_sleep
    /\ UNCHANGED <<notGateVars, rl_cfg, bp_i, bp_queue, bp_finished, wk_pc, wk_elapsed,
                   wk_sleep, rl_lock, window_age, rl_count, usage_ratio, admitted,
                   full_seen, waited>>

\* `time.sleep(pause_interval)` is over: back to the head of `while True:`
GateWake ==
    /\ bp_pc = "pause"
    /\ bp_sleep = 0
    /\ bp_pc' = "gate"
    /\ UNCHANGED <<notGateVars, rl_cfg, bp_i, bp_queue, bp_sleep, bp_finished, wk_pc,
                   wk_elapsed, wk_sleep, rl_lock, window_age, rl_count, usage_ratio,
                   admitted, full_seen, waited>>

\* `executor.submit(worker, data)`; no halt condition is configured
GateSubmit ==
    /\ bp_pc = "submit"
    /\ bp_queue' = bp_queue + 1
    /\ bp_i' = bp_i + 1
    /\ bp_pc' = "gate"
    /\ UNCHANGED <<notGateVars, rl_cfg, bp_sleep, bp_finished, wk_pc, wk_elapsed,
                   wk_sleep, rl_lock, window_age, rl_count, usage_ratio, admitted,
                   full_seen, waited>>

\* the loop is over; leaving `with ThreadPoolExecutor(...)` joins the workers
GateJoin ==
    /\ bp_pc = "gate"
    /\ bp_i > rl_cfg.rows
    /\ bp_queue = 0
    /\ \A w \in 1..MaxWorkers : wk_pc[w] = "idle"
    /\ bp_pc' = "done"
    /\ UNCHANGED <<notGateVars, rl_cfg, bp_i, bp_queue, bp_sleep, bp_finished, wk_pc,
                   wk_elapsed, wk_sleep, rl_lock, window_age, rl_count, usage_ratio,
                   admitted, full_seen, waited>>

\* a pool thread takes a work item; its LLM call starts with acquire
PoolStart(w) ==
    /\ bp_pc \in {"gate", "pause", "submit"}
    /\ wk_pc[w] = "idle"
    /\ bp_queue > 0
    /\ bp_queue' = bp_queue - 1
    /\ wk_pc' = [wk_pc EXCEPT ![w] = "acquire"]
    /\ waited' = [waited EXCEPT ![w] = FALSE]
    /\ UNCHANGED <<notGateVars, rl_cfg, bp_pc, bp_i, bp_sleep, bp_finished, wk_elapsed,
                   wk_sleep, rl_lock, window_age, rl_count, usage_ratio, admitted,
                   full_seen>>

\* acquire: `with self._lock:`, `now = time.time()`, `elapsed = ...`
AcquireEnter(w) ==
    /\ wk_pc[w] = "acquire"
    /\ MayLock(w)
    /\ rl_lock' = w
    /\ wk_elapsed' = [wk_elapsed EXCEPT ![w] = window_age]
    /\ wk_pc' = [wk_pc EXCEPT ![w] = "window"]
    /\ UNCHANGED <<notGateVars, rl_cfg, bp_pc, bp_i, bp_queue, bp_sleep, bp_finished,
                   wk_sleep, window_age, rl_count, usage_ratio, admitted, full_seen,
                   waited>>

\* acquire: `if elapsed >= self.per_seconds:` the window is reset
AcquireWindow(w) ==
    /\ wk_pc[w] = "window"
    /\ IF wk_elapsed[w] >= rl_cfg.per_seconds
       THEN /\ window_age' = 0
            /\ rl_count' = 0
            /\ admitted' = 0
            /\ full_seen' = [v \in 1..MaxWorkers |-> FALSE]
       ELSE UNCHANGED <<window_age, rl_count, admitted, full_seen>>
    /\ wk_pc' = [wk_pc EXCEPT ![w] = "test"]
    /\ UNCHANGED <<notGateVars, rl_cfg, bp_pc, bp_i, bp_queue, bp_sleep, bp_finished,
                   wk_elapsed, wk_sleep, rl_lock, usage_ratio, waited>>

\* acquire: `if self._count < self.requests:`, else `sleep_for = ...`, the
\* lock is left and the thread sleeps `max(sleep_for, 0.001)`
AcquireTest(w) ==
    /\ wk_pc[w] = "test"
    /\ IF rl_count < rl_cfg.requests
       THEN /\ wk_pc' = [wk_pc EXCEPT ![w] = "admit"]
            /\ UNCHANGED <<wk_sleep, rl_lock, full_seen, waited>>
       ELSE /\ wk_pc' = [wk_pc EXCEPT ![w] = "sleep"]
            /\ wk_sleep' = [wk_sleep EXCEPT ![w] =
                   IF rl_cfg.per_seconds - wk_elapsed[w] > 1
                   THEN rl_cfg.per_seconds - wk_elapsed[w] ELSE 1]
            /\ rl_lock' = 0
            /\ full_seen' = [full_seen EXCEPT ![w] = TRUE]
            /\ waited' = [waited EXCEPT ![w] = TRUE]
    /\ UNCHANGED <<notGateVars, rl_cfg, bp_pc, bp_i, bp_queue, bp_sleep, bp_finished,
                   wk_elapsed, window_age, rl_count, usage_ratio, admitted>>

\* acquire: `self._count += 1`, `self._usage_ratio = ...`, `break`: the
\* caller is admitted and makes its LLM call
AcquireAdmit(w) ==
    /\ wk_pc[w] = "admit"
    /\ rl_count' = rl_count + 1
    /\ usage_ratio' = UsageRatio(rl_count', rl_cfg.requests)
    /\ admitted' = admitted + 1
    /\ rl_lock' = 0
    /\ wk_pc' = [wk_pc EXCEPT ![w] = "call"]
    /\ UNCHANGED <<notGateVars, rl_cfg, bp_pc, bp_i, bp_queue, bp_sleep, bp_finished,
                   wk_elapsed, wk_sleep, window_age, full_seen, waited>>

\* acquire: the sleep is over, back to the head of `while True:`
AcquireWake(w) ==
    /\ wk_pc[w] = "sleep"
    /\ wk_sleep[w] = 0
    /\ wk_pc' = [wk_pc EXCEPT ![w] = "acquire"]
    /\ UNCHANGED <<notGateVars, rl_cfg, bp_pc, bp_i, bp_queue, bp_sleep, bp_finished,
                   wk_elapsed, wk_sleep, rl_lock, window_age, rl_count, usage_ratio,
                   admitted, full_seen, waited>>

\* the LLM call returns and the worker with it
WorkerReturn(w) ==
    /\ wk_pc[w] = "call"
    /\ wk_pc' = [wk_pc EXCEPT ![w] = "idle"]
    /\ bp_finished' = bp_finished + 1
    /\ UNCHANGED <<notGateVars, rl_cfg, bp_pc, bp_i, bp_queue, bp_sleep, wk_elapsed,
                   wk_sleep, rl_lock, window_age, rl_count, usage_ratio, admitted,
                   full_seen, waited>>

\* time.time() advances by one tick while somebody can tell
Tick ==
    /\ bp_pc \in {"gate", "pause", "submit"}
    /\ rl_lock = 0
    /\ \/ window_age < rl_cfg.per_seconds
       \/ bp_sleep > 0
       \/ \E w \in 1..MaxWorkers : wk_sleep[w] > 0
    /\ window_age' = IF window_age < rl_cfg.per_seconds THEN window_age + 1
                     ELSE window_age
    /\ bp_sleep' = IF bp_sleep > 0 THEN bp_sleep - 1 ELSE 0
    /\ wk_sleep' = [w \in 1..MaxWorkers |->
                        IF wk_sleep[w] > 0 THEN wk_sleep[w] - 1 ELSE 0]
    /\ UNCHANGED <<notGateVars, rl_cfg, bp_pc, bp_i, bp_queue, bp_finished, wk_pc,
                   wk_elapsed, rl_lock, rl_count, usage_ratio, admitted, full_seen,
                   waited>>

\* _run_parallel is entered with a fresh limiter: `_window_start = 0.0`
InitBackpressure ==
    /\ RunnerUnused
    /\ CoordUnused
    /\ ExecUnused
    /\ PipeUnused
    /\ CycleUnused
    /\ SuiteUnused
    /\ MergeUnused
    /\ BuildUnused
    /\ rl_cfg \in GateConfigs
    /\ bp_pc = "gate"
    /\ bp_i = 1
    /\ bp_queue = 0
    /\ bp_sleep = 0
    /\ bp_finished = 0
    /\ wk_pc = [w \in 1..MaxWorkers |-> "idle"]
    /\ wk_elapsed = [w \in 1..MaxWorkers |-> 0]
    /\ wk_sleep = [w \in 1..MaxWorkers |-> 0]
    /\ rl_lock = 0
    /\ window_age = rl_cfg.per_seconds
    /\ rl_count = 0
    /\ usage_ratio = 0
    /\ admitted = 0
    /\ full_seen = [w \in 1..MaxWorkers |-> FALSE]
    /\ waited = [w \in 1..MaxWorkers |-> FALSE]

NextBackpressure ==
    \/ GateRead
    \/ GateWake
    \/ GateSubmit
    \/ GateJoin
    \/ \E w \in 1..MaxWorkers : PoolStart(w)
    \/ \E w \in 1..MaxWorkers : AcquireEnter(w)
    \/ \E w \in 1..MaxWorkers : AcquireWindow(w)
    \/ \E w \in 1..MaxWorkers : AcquireTest(w)
    \/ \E w \in 1..MaxWorkers : AcquireAdmit(w)
    \/ \E w \in 1..MaxWorkers : AcquireWake(w)
    \/ \E w \in 1..MaxWorkers : WorkerReturn(w)
    \/ Tick

SpecBackpressure == InitBackpressure /\ [][NextBackpressure]_vars

\* every thread that can take a step takes one, the lock is handed to every
\* thread that keeps asking for it, LLM calls return and time advances
FairBackpressure ==
    /\ SpecBackpressure
    /\ SF_vars(Tick)
    /\ SF_vars(GateRead)
    /\ WF_vars(GateWake)
    /\ WF_vars(GateSubmit)
    /\ WF_vars(GateJoin)
    /\ \A w \in 1..MaxWorkers :
           /\ WF_vars(PoolStart(w))
           /\ SF_vars(AcquireEnter(w))
           /\ WF_vars(AcquireWindow(w))
           /\ WF_vars(AcquireTest(w))
           /\ WF_vars(AcquireAdmit(w))
           /\ WF_vars(AcquireWake(w))
           /\ WF_vars(WorkerReturn(w))

\* C34: with a FixedWindowRateLimiter the backpressure wait always ends: the
\* cycle terminates with every backlog tuple submitted and worked.
C34_BackpressureEnds ==
    <>(bp_pc = "done" /\ bp_finished = rl_cfg.rows)

\* C36: for any interleaving of the callers, at most `requests` acquisitions
\* are admitted between two window resets, and a caller that found the
\* window full is admitted only after a reset.
C36_WindowAdmitsAtMostRequests ==
    /\ admitted <= rl_cfg.requests
    /\ rl_count <= rl_cfg.requests
    /\ \A w \in 1..MaxWorkers : wk_pc[w] = "admit" => ~full_seen[w]

\* a caller that found the window full has slept and was admitted after the
\* reset, while the caller admitted before it is still in its LLM call
C36_Witness ==
    \E w, u \in 1..MaxWorkers :
        /\ w # u
        /\ wk_pc[w] = "call"
        /\ waited[w]
        /\ wk_pc[u] = "call"
        /\ ~waited[u]
        /\ rl_cfg.requests = 1
        /\ admitted = 1

\* C37: during execute no prepare_artifacts and no finalize call of a sink
\* whose binding has a clearance is handed an artifact above that clearance.
C37_NoArtifactAboveClearance ==
    \A e \in 1..Len(sink_log) :
        LET clearance == bindings[sink_log[e].binding].security_level
        IN (sink_log[e].op \in {"prepare_artifacts", "finalize"}
                /\ clearance # None /\ clearance[1] # "") =>
               \A artifact \in sink_log[e].artifacts :
                   IsSecurityLevelAllowed(artifact.security_level, clearance)

(***************************************************************************)
(* StandardOrchestrator.build_runner: the prompts of the runner it builds. *)
(* defaults is a dict of tagged values as in merge; a prompt is a string,  *)
(* held as the sequence of its characters.  Of the cycle's config the      *)
(* prompt fields and prompt_pack are followed.                             *)
(***************************************************************************)
\* the strings a cycle may hold as a prompt: the empty default, a blank
\* string, a prompt
CyclePrompts == {<<>>, <<" ">>, <<"c">>}

\* what a prompt pack of the defaults may hold
PackDatas ==
    {EmptyDict,
     [key \in {"prompt_system", "prompt_template"} |-> Scalar(<<"k">>)],
     Entry("prompts", Dict([key \in {"system", "user"} |-> Scalar(<<"K">>)]))}

\* the entries the defaults may hold under each key
DefaultsValues(key) ==
    CASE key \in {"prompt_system", "prompt_template"} -> {Scalar(<<"d">>)}
      [] key = "prompts" -> {Dict([k \in {"system", "user"} |-> Scalar(<<"D">>)])}
      [] key = "prompt_packs" -> {Dict(Entry("pack", Dict(data))) : data \in PackDatas}
      [] key = "prompt_pack" -> {Scalar("pack")}

DefaultsKeys ==
    {"prompt_system", "prompt_template", "prompts", "prompt_packs", "prompt_pack"}

\* `dict.get(key, default)`
Get(dict, key, default) == IF key \in DOMAIN dict THEN dict[key] ELSE default

\* build_runner: config_data, the fields of the config that are not None
ConfigData(config) ==
    [key \in {"prompt_system", "prompt_template"}
              \cup (IF config.prompt_pack = None THEN {} ELSE {"prompt_pack"}) |->
         IF key = "prompt_pack" THEN Scalar(config.prompt_pack[1])
         ELSE Scalar(config[key])]

\* build_runner: the sources it builds, in its order
BuildSources(config, defaults) ==
    LET prompt_packs == Get(defaults, "prompt_packs", Dict(EmptyDict)).dict
        pack_name == IF config.prompt_pack # None
                     THEN config.prompt_pack
                     ELSE IF "prompt_pack" \in DOMAIN defaults
                          THEN Some(defaults["prompt_pack"].scalar)
                          ELSE None
    IN <<ConfigSource("defaults", defaults, 1)>>
       \o (IF pack_name # None /\ pack_name[1] \in DOMAIN prompt_packs
           THEN <<ConfigSource("prompt_pack", prompt_packs[pack_name[1]].dict, 2)>>
           ELSE <<>>)
       \o <<ConfigSource("cycle", ConfigData(config), 3)>>

\* build_runner: prompt_system and prompt_template taken from merged, with
\* the fallback to the `prompts` dict
RunnerPrompts(m) ==
    LET prompt_system == Get(m, "prompt_system", Scalar(<<>>)).scalar
        prompt_template == Get(m, "prompt_template", Scalar(<<>>)).scalar
        prompts == Get(m, "prompts", Dict(EmptyDict)).dict
    IN IF DOMAIN prompts # {}
       THEN [prompt_system |-> IF prompt_system # <<>> THEN prompt_system
                               ELSE Get(prompts, "system", Scalar(<<>>)).scalar,
             prompt_template |-> IF prompt_template # <<>> THEN prompt_template
                                 ELSE Get(prompts, "user", Scalar(<<>>)).scalar]
       ELSE [prompt_system |-> prompt_system, prompt_template |-> prompt_template]

\* `if not (prompt or "").strip():`
Blank(prompt) == Strip(prompt) = <<>>

\* build_runner: sources and `merged = merger.merge(*sources)`
BuildMerge ==
    /\ br_pc = "start"
    /\ br_merged' = Merge(BuildSources(br_config, br_defaults))
    /\ br_pc' = "merged"
    /\ UNCHANGED <<notBuildVars, br_defaults, br_config, br_result>>

\* build_runner from the extraction of the prompts on: ConfigurationError
\* for a blank prompt, else the SDARunner with the prompts
BuildValidate ==
    /\ br_pc = "merged"
    /\ LET prompts == RunnerPrompts(br_merged)
       IN IF Blank(prompts.prompt_system) \/ Blank(prompts.prompt_template)
          THEN /\ br_result' = Some([error |-> "ConfigurationError"])
               /\ br_pc' = "raised"
          ELSE /\ br_result' = Some([runner |-> prompts])
               /\ br_pc' = "returned"
    /\ UNCHANGED <<notBuildVars, br_defaults, br_config, br_merged>>

\* build_runner is called for a cycle with some defaults
InitBuild ==
    /\ RunnerUnused
    /\ CoordUnused
    /\ ExecUnused
    /\ PipeUnused
    /\ CycleUnused
    /\ SuiteUnused
    /\ MergeUnused
    /\ GateUnused
    /\ \E present \in SUBSET DefaultsKeys :
       \E prompt_packs \in DefaultsValues("prompt_packs") :
           br_defaults = [key \in present |->
                              IF key = "prompt_packs" THEN prompt_packs
                              ELSE CHOOSE value \in DefaultsValues(key) : TRUE]
    /\ br_config \in [prompt_system : CyclePrompts, prompt_template : CyclePrompts,
                      prompt_pack : {None, Some("pack"), Some("other")}]
    /\ br_pc = "start"
    /\ br_merged = <<>>
    /\ br_result = None

NextBuild ==
    \/ BuildMerge
    \/ BuildValidate

SpecBuild == InitBuild /\ [][NextBuild]_vars

\* the sources below the cycle that build_runner merges
LowerSources == SelectSeq(BuildSources(br_config, br_defaults),
                          LAMBDA source : source.name # "cycle")

\* the prompt the levels below the cycle define under the key: that of the
\* highest source that has the key, None when none has
Inherited(key) ==
    LET having == SelectSeq(LowerSources, LAMBDA source : key \in DOMAIN source.data)
    IN IF having = <<>> THEN None ELSE Some(having[Len(having)].data[key].scalar)

\* C38: when the cycle leaves prompt_system and prompt_template at their
\* empty default and the defaults or the prompt pack define both, build_runner
\* raises no ConfigurationError and builds the runner with the inherited
\* prompts.
C38_PromptsInherited ==
    (/\ br_pc \in {"returned", "raised"}
     /\ br_config.prompt_system = <<>>
     /\ br_config.prompt_template = <<>>
     /\ Inherited("prompt_system") # None
     /\ Inherited("prompt_template") # None) =>
        /\ br_pc = "returned"
        /\ br_result[1].runner.prompt_system = Inherited("prompt_system")[1]
        /\ br_result[1].runner.prompt_template = Inherited("prompt_template")[1]

====
